---- MODULE Spec2Model ----
(***************************************************************************)
(* Model of frontend/src/app/shared/transaction.utils.ts: the raw          *)
(* transaction codec (decodeRawTransaction / fromBuffer /                  *)
(* serializeTransaction) as a state machine with one action per statement  *)
(* of fromBuffer, and the standardness validator (isNonStandard) as a pure *)
(* operator applied to transactions drawn from bounded sets.               *)
(*                                                                         *)
(* Representation of JavaScript values:                                    *)
(*  - a byte array and a hex string of a transaction field are both a      *)
(*    sequence of bytes 0..255 (the raw input string is a sequence of      *)
(*    characters, so that its validation and parsing are modelled);        *)
(*  - an int32 is an integer; a uint32 number n is held as the int32 with  *)
(*    the same 32 bits (n - 2^32 when n >= 2^31): integers here are 32-bit *)
(*    and every use of such a number in the code (intToBytes' >>) applies  *)
(*    ToInt32 first;                                                       *)
(*  - a 64-bit bigint and the number made from it are [neg, mag], mag the  *)
(*    magnitude as 64 bits, most significant first;                        *)
(*  - a bigint used as a count or length is held saturated at +-Huge,      *)
(*    which exceeds every buffer length of the model.                      *)
(***************************************************************************)
EXTENDS Integers, Sequences, FiniteSets, TLC

VARIABLES
  rawtx,    \* decodeRawTransaction's argument: a sequence of characters
  buffer,   \* fromBuffer's byte array
  offset,   \* fromBuffer's cursor
  pc,       \* the statement of fromBuffer that runs next
  tx,       \* the transaction under construction (returned when pc = "done")
  loc,      \* fromBuffer's locals
  ghost,    \* history of the reads: bytes consumed, accesses outside the buffer
  stx,      \* isNonStandard's tx argument
  sheight,  \* isNonStandard's height argument (Null when omitted)
  snetwork, \* isNonStandard's network argument (NoNetwork when omitted)
  sresult,  \* isNonStandard's result ("none" before the call)
  pri,      \* the frame of identifyPrioritizedTransactions: argument, locals, result
  sig,      \* the frame of a call of countScriptSigops
  adr,      \* the frame of a call of scriptPubKeyToAddress
  flg,      \* the frame of the calls of getTransactionFlags
  dis,      \* the frame of convertScriptSigAsm: argument, locals, result
  enc,      \* the frame of a call of an address encoder
  cnt,      \* the frame of a call of countSigops
  tap       \* the fields of the component of parseControlBlock, its argument and result

vars == <<rawtx, buffer, offset, pc, tx, loc, ghost, stx, sheight, snetwork, sresult,
          pri, sig, adr, flg, dis, enc, cnt, tap>>

codecVars == <<rawtx, buffer, offset, pc, tx, loc, ghost>>
stdVars == <<stx, sheight, snetwork, sresult>>
callVars == <<pri, sig, adr, flg, dis, enc, cnt, tap>>

\* ---------------------------------------------------------------- bounds

MaxVin == 2
MaxVout == 2
MaxCut == 4
Huge == 1048576

\* ------------------------------------------------------- generic helpers

Rep(b, n) == [k \in 1..n |-> b]

SeqsUpTo(S, n) == UNION {[1..k -> S] : k \in 0..n}

RECURSIVE Flatten(_)
Flatten(ss) ==
  IF Len(ss) = 0 THEN <<>>
  ELSE IF Len(ss) = 1 THEN ss[1]
  ELSE LET h == Len(ss) \div 2
       IN Flatten(SubSeq(ss, 1, h)) \o Flatten(SubSeq(ss, h + 1, Len(ss)))

Reverse(s) == [k \in 1..Len(s) |-> s[Len(s) + 1 - k]]

Max(a, b) == IF a > b THEN a ELSE b
Min(a, b) == IF a < b THEN a ELSE b

\* ------------------------------------------------------------ hex layer

HexChars == <<"0", "1", "2", "3", "4", "5", "6", "7", "8", "9", "a", "b", "c", "d", "e", "f">>

HexVal ==
  [c \in {"0", "1", "2", "3", "4", "5", "6", "7", "8", "9",
          "a", "b", "c", "d", "e", "f", "A", "B", "C", "D", "E", "F"} |->
     CASE c = "0" -> 0 [] c = "1" -> 1 [] c = "2" -> 2 [] c = "3" -> 3
       [] c = "4" -> 4 [] c = "5" -> 5 [] c = "6" -> 6 [] c = "7" -> 7
       [] c = "8" -> 8 [] c = "9" -> 9
       [] c \in {"a", "A"} -> 10 [] c \in {"b", "B"} -> 11
       [] c \in {"c", "C"} -> 12 [] c \in {"d", "D"} -> 13
       [] c \in {"e", "E"} -> 14 [] c \in {"f", "F"} -> 15]

\* /^[0-9a-fA-F]*$/.test(rawtx)
IsHexString(s) == \A k \in 1..Len(s) : s[k] \in DOMAIN HexVal

\* the loop of decodeRawTransaction: buffer[i / 2] = parseInt(rawtx.substring(i, i + 2), 16)
HexToBytes(s) ==
  [k \in 1..(Len(s) \div 2) |-> 16 * HexVal[s[2 * k - 1]] + HexVal[s[2 * k]]]

\* ------------------------------------------------------- buffer reader

\* buffer[k] of a Uint8Array: undefined outside 0..length-1
Undef == -1
At(buf, k) == IF k >= 0 /\ k < Len(buf) THEN buf[k + 1] ELSE Undef

\* an operand of | or << : undefined becomes 0
Or0(b) == IF b = Undef THEN 0 ELSE b

\* some index of o..o+w-1 lies outside the buffer
Outside(buf, o, w) == \E k \in o..(o + w - 1) : At(buf, k) = Undef

\* a read that threw at cursor o, having asked for the bytes before index end
Thrown(o, end) == [ok |-> FALSE, val |-> 0, off |-> o, oob |-> FALSE, end |-> end]

readInt8(buf, o) ==
  IF o + 1 > Len(buf) THEN Thrown(o, o + 1)
  ELSE [ok |-> TRUE, val |-> At(buf, o), off |-> o + 1, oob |-> Outside(buf, o, 1), end |-> o + 1]

readInt16(buf, o) ==
  IF o + 2 > Len(buf) THEN Thrown(o, o + 2)
  ELSE [ok |-> TRUE, val |-> Or0(At(buf, o)) + 256 * Or0(At(buf, o + 1)),
        off |-> o + 2, oob |-> Outside(buf, o, 2), end |-> o + 2]

\* buffer[o] | buffer[o+1] << 8 | buffer[o+2] << 16 | buffer[o+3] << 24 : an int32
Int32At(buf, o) ==
  LET b3 == Or0(At(buf, o + 3))
  IN Or0(At(buf, o)) + 256 * Or0(At(buf, o + 1)) + 65536 * Or0(At(buf, o + 2))
       + 16777216 * (IF b3 >= 128 THEN b3 - 256 ELSE b3)

\* readInt32 with the bound check off by one: a read ending one byte past the
\* buffer returns
readInt32Loose(buf, o) ==
  IF o + 4 > Len(buf) + 1 THEN Thrown(o, o + 4)
  ELSE [ok |-> TRUE, val |-> Int32At(buf, o), off |-> o + 4, oob |-> Outside(buf, o, 4), end |-> o + 4]

\* readInt32(unsigned): value >>> 0 keeps the 32 bits (see the header)
readInt32(buf, o) ==
  IF o + 4 > Len(buf) THEN Thrown(o, o + 4)
  ELSE [ok |-> TRUE, val |-> Int32At(buf, o), off |-> o + 4, oob |-> Outside(buf, o, 4), end |-> o + 4]

\* ---- 64-bit values as bits
Bits8(b) == [k \in 1..8 |-> (b \div (2 ^ (8 - k))) % 2]

RECURSIVE BitsVal(_)
BitsVal(bits) ==
  IF Len(bits) = 0 THEN 0
  ELSE IF Len(bits) = 1 THEN bits[1]
  ELSE LET h == Len(bits) \div 2
       IN BitsVal(SubSeq(bits, 1, h)) * (2 ^ (Len(bits) - h))
            + BitsVal(SubSeq(bits, h + 1, Len(bits)))

\* bits + 1 modulo 2^Len(bits): the last 0 becomes 1, the ones after it 0
AddOne(bits) ==
  LET zeros == {k \in 1..Len(bits) : bits[k] = 0}
  IN IF zeros = {} THEN Rep(0, Len(bits))
     ELSE LET p == CHOOSE k \in zeros : \A j \in zeros : j <= k
          IN [k \in 1..Len(bits) |-> IF k < p THEN bits[k] ELSE IF k = p THEN 1 ELSE 0]

\* two's complement negation modulo 2^Len(bits)
Negate(bits) == AddOne([k \in 1..Len(bits) |-> 1 - bits[k]])

\* (high << 32n) | (low & 0xffffffffn), high and low the int32 of bytes o+4.. and o..
Int64At(buf, o) ==
  LET bits == Flatten([k \in 1..8 |-> Bits8(Or0(At(buf, o + 8 - k)))])
  IN IF bits[1] = 1 THEN [neg |-> TRUE, mag |-> Negate(bits)]
     ELSE [neg |-> FALSE, mag |-> bits]

readInt64(buf, o) ==
  IF o + 8 > Len(buf) THEN Thrown(o, o + 8)
  ELSE [ok |-> TRUE, val |-> Int64At(buf, o), off |-> o + 8, oob |-> Outside(buf, o, 8), end |-> o + 8]

\* a bigint as a count or length, saturated at +-Huge
Saturate(big) ==
  LET m == IF \E k \in 1..43 : big.mag[k] = 1 THEN Huge
           ELSE Min(BitsVal(SubSeq(big.mag, 44, 64)), Huge)
  IN IF big.neg THEN 0 - m ELSE m

\* BigInt(readInt32(true)): the uint32 of an int32 bit pattern, saturated
SaturateU32(v) == IF v < 0 \/ v > Huge THEN Huge ELSE v

readVarInt(buf, o) ==
  LET f == readInt8(buf, o)
  IN IF ~f.ok THEN f
     ELSE IF f.val = Undef THEN Thrown(f.off, f.end)   \* "Invalid VarInt prefix"
     ELSE IF f.val < 253 THEN f
     ELSE IF f.val = 253 THEN readInt16(buf, f.off)
     ELSE IF f.val = 254
       THEN LET r == readInt32(buf, f.off)
            IN IF r.ok THEN [r EXCEPT !.val = SaturateU32(r.val)] ELSE r
       ELSE LET r == readInt64(buf, f.off)
            IN IF r.ok THEN [r EXCEPT !.val = Saturate(r.val)] ELSE r

\* Uint8Array.prototype.slice(start, end): negative indices count from the end
JsSlice(buf, start, end) ==
  LET len == Len(buf)
      s == IF start < 0 THEN Max(len + start, 0) ELSE Min(start, len)
      e == IF end < 0 THEN Max(len + end, 0) ELSE Min(end, len)
  IN IF e > s THEN SubSeq(buf, s + 1, e) ELSE <<>>

readSlice(buf, o, n) ==
  IF o + n > Len(buf) THEN Thrown(o, o + n)
  ELSE [ok |-> TRUE, val |-> JsSlice(buf, o, o + n), off |-> o + n,
        oob |-> o < 0 \/ o + n < 0, end |-> o + n]

\* ------------------------------------------------- numbers and encoders

\* Number(bigint): round the magnitude to 53 significant bits, ties to even
LeadPos(bits) ==
  IF \A k \in 1..Len(bits) : bits[k] = 0 THEN 0
  ELSE CHOOSE k \in 1..Len(bits) : bits[k] = 1 /\ \A j \in 1..(k - 1) : bits[j] = 0

RoundDouble(mag) ==
  LET p == LeadPos(mag)
  IN IF p = 0 \/ 64 - p + 1 <= 53 THEN mag
     ELSE LET last == p + 52
              up == mag[last + 1] = 1
                    /\ (mag[last] = 1 \/ \E k \in (last + 2)..64 : mag[k] = 1)
              kept == SubSeq(mag, 1, last)
          IN (IF up THEN AddOne(kept) ELSE kept) \o Rep(0, 64 - last)

NumberOf(big) == [neg |-> big.neg, mag |-> RoundDouble(big.mag)]

\* intToBytes(value, byteLength): (value >> (8 * i)) & 0xff
intToBytes(value, byteLength) ==
  [k \in 1..byteLength |-> (value \div (2 ^ (8 * (k - 1)))) % 256]

\* bigIntToBytes(BigInt(value), 8) of a number [neg, mag]
bigIntToBytes(value) ==
  LET bits == IF value.neg THEN Negate(value.mag) ELSE value.mag
  IN [k \in 1..8 |-> BitsVal(SubSeq(bits, 64 - 8 * k + 1, 64 - 8 * k + 8))]

\* varIntToBytes of a number (an array length)
varIntToBytes(value) ==
  IF value < 253 THEN <<value>>
  ELSE IF value <= 65535 THEN <<253, value % 256, (value \div 256) % 256>>
  ELSE <<254>> \o intToBytes(value, 4)

serializeVin(input) ==
  Reverse(input.txid) \o intToBytes(input.vout, 4)
    \o varIntToBytes(Len(input.scriptsig)) \o input.scriptsig
    \o intToBytes(input.sequence, 4)

serializeVout(output) ==
  bigIntToBytes(output.value) \o varIntToBytes(Len(output.scriptpubkey))
    \o output.scriptpubkey

serializeTransaction(t) ==
  intToBytes(t.version, 4)
    \o varIntToBytes(Len(t.vin)) \o Flatten([k \in 1..Len(t.vin) |-> serializeVin(t.vin[k])])
    \o varIntToBytes(Len(t.vout)) \o Flatten([k \in 1..Len(t.vout) |-> serializeVout(t.vout[k])])
    \o intToBytes(t.locktime, 4)

\* txid(tx): the double hash of the serialization; the hash is an uninterpreted
\* injective constructor over the hashed bytes
txid(t) == [sha256d |-> serializeTransaction(t)]

\* ------------------------------------------------ raw inputs of the model

ToHex(bytes) ==
  [k \in 1..(2 * Len(bytes)) |->
     IF k % 2 = 1 THEN HexChars[(bytes[(k + 1) \div 2] \div 16) + 1]
     ELSE HexChars[(bytes[k \div 2] % 16) + 1]]

\* varint encodings: canonical, and the longer forms readVarInt accepts
EncFD(n) == <<253, n % 256, n \div 256>>
EncFE(n) == <<254, n % 256, n \div 256, 0, 0>>
EncFF(n) == <<255, n % 256, n \div 256, 0, 0, 0, 0, 0, 0>>
\* 0xff-prefixed 8 bytes with the top bit set: readInt64 makes it the bigint -k
EncFFNeg(k) == <<255, 256 - k>> \o Rep(255, 7)

ZeroTxid == Rep(0, 32)
SomeTxid == [k \in 1..32 |-> k]
SeqFinal == Rep(255, 4)
SeqRbf == <<253, 255, 255, 255>>
P2wpkhScript == <<0, 20>> \o [k \in 1..20 |-> 160 + k]

GenInputs ==
  { ZeroTxid \o Rep(255, 4) \o <<2, 81, 172>> \o SeqFinal,          \* coinbase
    SomeTxid \o <<1, 0, 0, 0>> \o <<0>> \o SeqRbf,                  \* empty scriptSig
    SomeTxid \o <<0, 0, 0, 128>> \o EncFD(1) \o <<81>> \o SeqFinal, \* length as fd 01 00
    SomeTxid \o <<0, 0, 0, 0>> \o EncFFNeg(4),                      \* length -4: sequence re-reads the varint
    SomeTxid \o <<0, 0, 0, 0>> \o EncFFNeg(51) \o SeqFinal }        \* length -51: cursor before the buffer

GenOutputs ==
  { <<38, 1, 0, 0, 0, 0, 0, 0>> \o <<22>> \o P2wpkhScript,          \* 294 sat
    <<1, 0, 0, 0, 0, 0, 32, 0>> \o <<0>>,                           \* 2^53 + 1
    Rep(255, 8) \o <<1, 106>>,                                      \* -1
    <<255, 255, 255, 255, 255, 255, 255, 127>> \o EncFE(1) \o <<81>>, \* 2^63 - 1, length as fe
    <<1, 0, 0, 0, 0, 0, 0, 0>> \o EncFFNeg(9) }                     \* length -9: re-reads the varint

GenWitness ==
  { <<0>>,
    <<1, 2, 170, 187>>,
    <<2, 0, 1, 80>>,
    EncFD(1) \o <<1, 7>>,
    <<1>> \o EncFFNeg(4) }

DefaultInput == SomeTxid \o <<1, 0, 0, 0>> \o <<1, 81>> \o SeqFinal
DefaultOutput == <<38, 1, 0, 0, 0, 0, 0, 0>> \o <<22>> \o P2wpkhScript
Locktime == <<0, 1, 0, 0>>

BuildTx(version, segwit, vinCount, vins, voutCount, vouts, wits) ==
  version \o (IF segwit THEN <<0, 1>> ELSE <<>>)
    \o vinCount \o Flatten(vins) \o voutCount \o Flatten(vouts)
    \o (IF segwit THEN Flatten(wits) ELSE <<>>) \o Locktime

CountEncodings(n) == {<<n>>, EncFD(n)}

\* every list of inputs, with default outputs
GenVinFamily ==
  UNION { { BuildTx(<<2, 0, 0, 0>>, sw, c, vins, <<1>>, <<DefaultOutput>>, [k \in 1..Len(vins) |-> <<0>>]) :
              c \in CountEncodings(Len(vins)) \cup {<<1>>} } :
          sw \in BOOLEAN, vins \in SeqsUpTo(GenInputs, MaxVin) }

\* every list of outputs, with a default input
GenVoutFamily ==
  UNION { { BuildTx(<<255, 255, 255, 255>>, sw, <<1>>, <<DefaultInput>>, c, vouts, <<<<1, 1, 9>>>>) :
              c \in CountEncodings(Len(vouts)) } :
          sw \in BOOLEAN, vouts \in SeqsUpTo(GenOutputs, MaxVout) }

\* every list of witness stacks
GenWitnessFamily ==
  UNION { { BuildTx(<<1, 0, 0, 0>>, TRUE, <<n>>, [k \in 1..n |-> DefaultInput], <<1>>, <<DefaultOutput>>, wits) :
              wits \in [1..n -> GenWitness] } : n \in 1..MaxVin }

\* counts that are negative or beyond the buffer
GenCountFamily ==
  { BuildTx(<<2, 0, 0, 0>>, sw, c, <<>>, <<0>>, <<>>, <<>>) :
      sw \in BOOLEAN, c \in {EncFFNeg(1), <<254, 255, 255, 255, 255>>, EncFF(0), <<255, 0, 0, 0, 0, 1, 0, 0, 0>>} }
  \cup { BuildTx(<<2, 0, 0, 0>>, FALSE, <<1>>, <<DefaultInput>>, c, <<>>, <<>>) :
           c \in {EncFFNeg(1), EncFE(0), <<254, 0, 0, 0, 128>>} }

\* truncated and over-long buffers
GenCutFamily ==
  LET base == GenWitnessFamily \cup {BuildTx(<<2, 0, 0, 0>>, FALSE, <<1>>, <<DefaultInput>>, <<1>>, <<DefaultOutput>>, <<>>)}
  IN { SubSeq(b, 1, Len(b) - k) : b \in base, k \in 1..MaxCut }
     \cup { b \o <<0>> : b \in base }
     \cup { SubSeq(b, 1, k) : b \in base, k \in 0..(MaxCut + 6) }

GenBuffers == GenVinFamily \cup GenVoutFamily \cup GenWitnessFamily \cup GenCountFamily \cup GenCutFamily

Upper(s) ==
  [k \in 1..Len(s) |->
     CASE s[k] = "a" -> "A" [] s[k] = "b" -> "B" [] s[k] = "c" -> "C"
       [] s[k] = "d" -> "D" [] s[k] = "e" -> "E" [] s[k] = "f" -> "F" [] OTHER -> s[k]]

\* strings that are not the hex of a buffer, and an upper-case one that is
GenMalformed ==
  LET good == ToHex(BuildTx(<<2, 0, 0, 0>>, TRUE, <<1>>, <<DefaultInput>>, <<1>>, <<DefaultOutput>>, <<<<1, 1, 9>>>>))
  IN { <<>>, <<"0">>, SubSeq(good, 1, Len(good) - 1), [good EXCEPT ![7] = "g"],
       [good EXCEPT ![Len(good)] = " "], <<"0", "x">> \o good, Upper(good) }

RawInputs == { ToHex(b) : b \in GenBuffers } \cup GenMalformed

\* --------------------------------------------------------- fromBuffer

Zero64 == [neg |-> FALSE, mag |-> Rep(0, 64)]

NoTx == [version |-> 0, vin |-> <<>>, vout |-> <<>>, locktime |-> 0,
         size |-> 0, weight |-> 0, txid |-> [sha256d |-> <<>>]]

NoLoc == [hasWitnesses |-> FALSE, marker |-> 0, flag |-> 0, vinLen |-> 0, voutLen |-> 0,
          i |-> 0, count |-> 0, k |-> 0, n |-> 0, txid |-> <<>>, vout |-> 0,
          scriptsig |-> <<>>, value |-> Zero64, vector |-> <<>>,
          startOffset |-> 0, witnessSize |-> 0]

\* history: an access outside the buffer that did not throw (oob), the farthest
\* index a read asked for (maxEnd), the bytes the cursor advanced over while
\* reading the marker, the witness section and everything else
NoGhost == [oob |-> FALSE, maxEnd |-> 0, marker |-> 0, nonWit |-> 0, wit |-> 0]

NoStd == [version |-> 0, weight |-> 0, sigops |-> 0, vin |-> <<>>, vout |-> <<>>]

Null == -2147483647
NoNetwork == "(omitted)"

StdIdle == stx = NoStd /\ sheight = Null /\ snetwork = NoNetwork /\ sresult = "none"

\* a function that is not called in the behaviour
NoCall == [pc |-> "idle"]

PriIdle == pri = NoCall
SigIdle == sig = NoCall
AdrIdle == adr = NoCall
FlgIdle == flg = NoCall
DisIdle == dis = NoCall
EncIdle == enc = NoCall
CntIdle == cnt = NoCall
TapIdle == tap = NoCall

Init ==
  /\ rawtx \in RawInputs
  /\ buffer = <<>>
  /\ offset = 0
  /\ pc = "start"
  /\ tx = NoTx
  /\ loc = NoLoc
  /\ ghost = NoGhost
  /\ StdIdle
  /\ PriIdle /\ SigIdle /\ AdrIdle /\ FlgIdle /\ DisIdle /\ EncIdle /\ CntIdle /\ TapIdle

\* a read threw: the error leaves fromBuffer and no transaction is returned
Fail(r) ==
  /\ pc' = "error"
  /\ offset' = r.off
  /\ tx' = NoTx
  /\ ghost' = [ghost EXCEPT !.maxEnd = Max(@, r.end)]
  /\ UNCHANGED <<rawtx, buffer, loc, stdVars, callVars>>

\* a read returned: the cursor moves, the history records it under section
Advance(r, section) ==
  /\ offset' = r.off
  /\ ghost' = [ghost EXCEPT !.oob = @ \/ r.oob, !.maxEnd = Max(@, r.end),
                            ![section] = @ + (r.off - offset)]

\* the statements after the output loop: the witness loop starts or is skipped
EnterWitness(l, off) ==
  IF ~l.hasWitnesses THEN [loc |-> l, pc |-> "locktime"]
  ELSE IF 0 < l.vinLen
    THEN [loc |-> [l EXCEPT !.startOffset = off, !.i = 0], pc |-> "witCount"]
    ELSE [loc |-> [l EXCEPT !.startOffset = off, !.i = 0, !.witnessSize = 2], pc |-> "locktime"]

\* the end of the witness loop without the marker and flag bytes in witnessSize
FinishVectorNoFlag(l, vector, off) ==
  IF l.i + 1 < l.vinLen
    THEN [loc |-> [l EXCEPT !.i = @ + 1, !.vector = vector], pc |-> "witCount"]
    ELSE [loc |-> [l EXCEPT !.i = @ + 1, !.vector = vector,
                            !.witnessSize = off - l.startOffset], pc |-> "locktime"]

\* readVector returned: tx.vin[i].witness is set and the witness loop goes on or ends
FinishVector(l, vector, off) ==
  IF l.i + 1 < l.vinLen
    THEN [loc |-> [l EXCEPT !.i = @ + 1, !.vector = vector], pc |-> "witCount"]
    ELSE [loc |-> [l EXCEPT !.i = @ + 1, !.vector = vector,
                            !.witnessSize = off - l.startOffset + 2], pc |-> "locktime"]

DecodeRawTransaction ==
  /\ pc = "start"
  /\ IF Len(rawtx) = 0 \/ Len(rawtx) % 2 # 0 \/ ~IsHexString(rawtx)
       THEN pc' = "error" /\ UNCHANGED buffer
       ELSE pc' = "version" /\ buffer' = HexToBytes(rawtx)
  /\ UNCHANGED <<rawtx, offset, tx, loc, ghost, stdVars, callVars>>

ReadVersion ==
  /\ pc = "version"
  /\ LET r == readInt32(buffer, offset)
     IN IF ~r.ok THEN Fail(r)
        ELSE /\ Advance(r, "nonWit")
             /\ tx' = [tx EXCEPT !.version = r.val]
             /\ pc' = "marker"
             /\ UNCHANGED <<rawtx, buffer, loc, stdVars, callVars>>

\* const marker = readInt8(); const flag = readInt8();
ReadMarker ==
  /\ pc = "marker"
  /\ LET m == readInt8(buffer, offset)
         f == readInt8(buffer, m.off)
     IN IF ~m.ok THEN Fail(m)
        ELSE IF ~f.ok THEN Fail(f)
        ELSE /\ Advance(f, "marker")
             /\ loc' = [loc EXCEPT !.marker = m.val, !.flag = f.val]
             /\ pc' = "checkMarker"
             /\ UNCHANGED <<rawtx, buffer, tx, stdVars, callVars>>

\* if (marker === 0x00 && flag === 0x01) hasWitnesses = true; else offset -= 2;
CheckMarker ==
  /\ pc = "checkMarker"
  /\ IF loc.marker = 0 /\ loc.flag = 1
       THEN /\ loc' = [loc EXCEPT !.hasWitnesses = TRUE]
            /\ UNCHANGED <<offset, ghost>>
       ELSE /\ offset' = offset - 2
            /\ ghost' = [ghost EXCEPT !.marker = @ - 2]
            /\ UNCHANGED loc
  /\ pc' = "vinLen"
  /\ UNCHANGED <<rawtx, buffer, tx, stdVars, callVars>>

ReadVinLen ==
  /\ pc = "vinLen"
  /\ LET r == readVarInt(buffer, offset)
     IN IF ~r.ok THEN Fail(r)
        ELSE /\ Advance(r, "nonWit")
             /\ loc' = [loc EXCEPT !.vinLen = r.val, !.i = 0]
             /\ pc' = IF 0 < r.val THEN "vinTxid" ELSE "voutLen"
             /\ UNCHANGED <<rawtx, buffer, tx, stdVars, callVars>>

\* const txid = uint8ArrayToHexString(readSlice(32).reverse());
ReadVinTxid ==
  /\ pc = "vinTxid"
  /\ LET r == readSlice(buffer, offset, 32)
     IN IF ~r.ok THEN Fail(r)
        ELSE /\ Advance(r, "nonWit")
             /\ loc' = [loc EXCEPT !.txid = Reverse(r.val)]
             /\ pc' = "vinVout"
             /\ UNCHANGED <<rawtx, buffer, tx, stdVars, callVars>>

ReadVinVout ==
  /\ pc = "vinVout"
  /\ LET r == readInt32(buffer, offset)
     IN IF ~r.ok THEN Fail(r)
        ELSE /\ Advance(r, "nonWit")
             /\ loc' = [loc EXCEPT !.vout = r.val]
             /\ pc' = "vinScriptLen"
             /\ UNCHANGED <<rawtx, buffer, tx, stdVars, callVars>>

\* readVarSlice, first half: readVarInt()
ReadVinScriptLen ==
  /\ pc = "vinScriptLen"
  /\ LET r == readVarInt(buffer, offset)
     IN IF ~r.ok THEN Fail(r)
        ELSE /\ Advance(r, "nonWit")
             /\ loc' = [loc EXCEPT !.n = r.val]
             /\ pc' = "vinScript"
             /\ UNCHANGED <<rawtx, buffer, tx, stdVars, callVars>>

\* readVarSlice, second half: readSlice(n)
ReadVinScript ==
  /\ pc = "vinScript"
  /\ LET r == readSlice(buffer, offset, loc.n)
     IN IF ~r.ok THEN Fail(r)
        ELSE /\ Advance(r, "nonWit")
             /\ loc' = [loc EXCEPT !.scriptsig = r.val]
             /\ pc' = "vinSequence"
             /\ UNCHANGED <<rawtx, buffer, tx, stdVars, callVars>>

\* const sequence = readInt32(true); ...; tx.vin.push({...}); ++i
ReadVinSequence ==
  /\ pc = "vinSequence"
  /\ LET r == readInt32(buffer, offset)
     IN IF ~r.ok THEN Fail(r)
        ELSE /\ Advance(r, "nonWit")
             /\ tx' = [tx EXCEPT !.vin = Append(@,
                         [txid |-> loc.txid, vout |-> loc.vout, scriptsig |-> loc.scriptsig,
                          sequence |-> r.val, is_coinbase |-> loc.txid = ZeroTxid,
                          witness |-> <<>>])]
             /\ loc' = [loc EXCEPT !.i = @ + 1]
             /\ pc' = IF loc.i + 1 < loc.vinLen THEN "vinTxid" ELSE "voutLen"
             /\ UNCHANGED <<rawtx, buffer, stdVars, callVars>>

ReadVoutLen ==
  /\ pc = "voutLen"
  /\ LET r == readVarInt(buffer, offset)
     IN IF ~r.ok THEN Fail(r)
        ELSE /\ Advance(r, "nonWit")
             /\ loc' = [loc EXCEPT !.voutLen = r.val, !.i = 0]
             /\ pc' = IF 0 < r.val THEN "voutValue" ELSE "afterVouts"
             /\ UNCHANGED <<rawtx, buffer, tx, stdVars, callVars>>

\* const value = Number(readInt64());
ReadVoutValue ==
  /\ pc = "voutValue"
  /\ LET r == readInt64(buffer, offset)
     IN IF ~r.ok THEN Fail(r)
        ELSE /\ Advance(r, "nonWit")
             /\ loc' = [loc EXCEPT !.value = NumberOf(r.val)]
             /\ pc' = "voutScriptLen"
             /\ UNCHANGED <<rawtx, buffer, tx, stdVars, callVars>>

ReadVoutScriptLen ==
  /\ pc = "voutScriptLen"
  /\ LET r == readVarInt(buffer, offset)
     IN IF ~r.ok THEN Fail(r)
        ELSE /\ Advance(r, "nonWit")
             /\ loc' = [loc EXCEPT !.n = r.val]
             /\ pc' = "voutScript"
             /\ UNCHANGED <<rawtx, buffer, tx, stdVars, callVars>>

\* readSlice(n); ...; tx.vout.push({...}); ++i
ReadVoutScript ==
  /\ pc = "voutScript"
  /\ LET r == readSlice(buffer, offset, loc.n)
     IN IF ~r.ok THEN Fail(r)
        ELSE /\ Advance(r, "nonWit")
             /\ tx' = [tx EXCEPT !.vout = Append(@, [value |-> loc.value, scriptpubkey |-> r.val])]
             /\ loc' = [loc EXCEPT !.i = @ + 1]
             /\ pc' = IF loc.i + 1 < loc.voutLen THEN "voutValue" ELSE "afterVouts"
             /\ UNCHANGED <<rawtx, buffer, stdVars, callVars>>

\* let witnessSize = 0; if (hasWitnesses) { const startOffset = offset; ...
StartWitness ==
  /\ pc = "afterVouts"
  /\ LET e == EnterWitness(loc, offset)
     IN loc' = e.loc /\ pc' = e.pc
  /\ UNCHANGED <<rawtx, buffer, offset, tx, ghost, stdVars, callVars>>

\* readVector: const count = readVarInt();
ReadWitCount ==
  /\ pc = "witCount"
  /\ LET r == readVarInt(buffer, offset)
     IN IF ~r.ok THEN Fail(r)
        ELSE /\ Advance(r, "wit")
             /\ IF 0 < r.val
                  THEN /\ loc' = [loc EXCEPT !.count = r.val, !.k = 0, !.vector = <<>>]
                       /\ pc' = "witItemLen"
                       /\ UNCHANGED tx
                  ELSE LET e == FinishVector([loc EXCEPT !.count = r.val, !.k = 0], <<>>, r.off)
                       IN /\ loc' = e.loc
                          /\ pc' = e.pc
                          /\ tx' = [tx EXCEPT !.vin[loc.i + 1].witness = <<>>]
             /\ UNCHANGED <<rawtx, buffer, stdVars, callVars>>

ReadWitItemLen ==
  /\ pc = "witItemLen"
  /\ LET r == readVarInt(buffer, offset)
     IN IF ~r.ok THEN Fail(r)
        ELSE /\ Advance(r, "wit")
             /\ loc' = [loc EXCEPT !.n = r.val]
             /\ pc' = "witItem"
             /\ UNCHANGED <<rawtx, buffer, tx, stdVars, callVars>>

ReadWitItem ==
  /\ pc = "witItem"
  /\ LET r == readSlice(buffer, offset, loc.n)
         vector == Append(loc.vector, r.val)
     IN IF ~r.ok THEN Fail(r)
        ELSE /\ Advance(r, "wit")
             /\ IF loc.k + 1 < loc.count
                  THEN /\ loc' = [loc EXCEPT !.k = @ + 1, !.vector = vector]
                       /\ pc' = "witItemLen"
                       /\ UNCHANGED tx
                  ELSE LET e == FinishVector([loc EXCEPT !.k = @ + 1], vector, r.off)
                       IN /\ loc' = e.loc
                          /\ pc' = e.pc
                          /\ tx' = [tx EXCEPT !.vin[loc.i + 1].witness = vector]
             /\ UNCHANGED <<rawtx, buffer, stdVars, callVars>>

ReadLocktime ==
  /\ pc = "locktime"
  /\ LET r == readInt32(buffer, offset)
     IN IF ~r.ok THEN Fail(r)
        ELSE /\ Advance(r, "nonWit")
             /\ tx' = [tx EXCEPT !.locktime = r.val]
             /\ pc' = "finish"
             /\ UNCHANGED <<rawtx, buffer, loc, stdVars, callVars>>

\* if (offset !== buffer.length) throw ...; tx.size, tx.weight, tx.txid; return tx
Finish ==
  /\ pc = "finish"
  /\ IF offset # Len(buffer)
       THEN pc' = "error" /\ tx' = NoTx
       ELSE LET size == Len(buffer)
                t == [tx EXCEPT !.size = size, !.weight = (size - loc.witnessSize) * 3 + size]
            IN pc' = "done" /\ tx' = [t EXCEPT !.txid = txid(t)]
  /\ UNCHANGED <<rawtx, buffer, offset, loc, ghost, stdVars, callVars>>

Next ==
  \/ DecodeRawTransaction
  \/ ReadVersion
  \/ ReadMarker
  \/ CheckMarker
  \/ ReadVinLen
  \/ ReadVinTxid
  \/ ReadVinVout
  \/ ReadVinScriptLen
  \/ ReadVinScript
  \/ ReadVinSequence
  \/ ReadVoutLen
  \/ ReadVoutValue
  \/ ReadVoutScriptLen
  \/ ReadVoutScript
  \/ StartWitness
  \/ ReadWitCount
  \/ ReadWitItemLen
  \/ ReadWitItem
  \/ ReadLocktime
  \/ Finish

Spec == Init /\ [][Next]_vars

\* ------------------------------------------------- codec: claims C1..C4

\* the raw bytes carry the segwit marker and flag after the version
Marked(buf) == Len(buf) >= 6 /\ buf[5] = 0 /\ buf[6] = 1

\* the raw bytes without the marker, the flag and the witness section (the bytes
\* the witness loop moved the cursor over)
NonWitnessBytes ==
  IF ~Marked(buffer) THEN buffer
  ELSE SubSeq(buffer, 1, 4) \o SubSeq(buffer, 7, loc.startOffset)
         \o SubSeq(buffer, loc.startOffset + (loc.witnessSize - 2) + 1, Len(buffer))

\* C1 (as claimed): whenever decodeRawTransaction returns a transaction,
\* serializeTransaction of it is the input without marker, flag and witness
\* section, for every encoding the decoder accepts, and the stored txid is the
\* double hash of exactly those bytes.
C1_RoundTrip ==
  pc = "done" =>
    /\ serializeTransaction(tx) = NonWitnessBytes
    /\ tx.txid = [sha256d |-> NonWitnessBytes]

\* C2 (as claimed): every read that does not throw touches only indices inside
\* the buffer, moves the cursor forward (the rewind of an absent marker apart)
\* and leaves it within 0..buffer length.
C2_ReadsBoundsChecked ==
  [][pc' # "error" =>
       /\ ~ghost'.oob
       /\ offset' \in 0..Len(buffer')
       /\ offset' >= offset \/ (pc = "checkMarker" /\ offset' = offset - 2)]_vars

\* C3: a returned transaction has size = the raw byte count and weight = 4 x size
\* without a marker, 3 x nonWitnessSize + size with one, nonWitnessSize being
\* size - 2 - (bytes of the witness section), which is also the number of bytes
\* read outside the marker and the witness section.
C3_WeightInvariant ==
  pc = "done" =>
    /\ 2 * tx.size = Len(rawtx)
    /\ IF Marked(buffer)
         THEN /\ tx.weight = 3 * (tx.size - 2 - ghost.wit) + tx.size
              /\ ghost.nonWit = tx.size - 2 - ghost.wit
         ELSE /\ tx.weight = 4 * tx.size
              /\ ghost.nonWit = tx.size

C3_Witness ==
  /\ pc = "done"
  /\ Marked(buffer)
  /\ \E k \in 1..Len(tx.vin) : Len(tx.vin[k].witness) = 2
  /\ tx.weight < 4 * tx.size

HexAlphabet ==
  {"0", "1", "2", "3", "4", "5", "6", "7", "8", "9",
   "a", "b", "c", "d", "e", "f", "A", "B", "C", "D", "E", "F"}

WellFormedHex(s) ==
  Len(s) > 0 /\ Len(s) % 2 = 0 /\ \A k \in 1..Len(s) : s[k] \in HexAlphabet

\* C4: decodeRawTransaction throws, returning no transaction, when the hex is
\* empty, odd or not hex, when a read asks for bytes beyond the end of the
\* buffer, and when bytes remain after the locktime; a returned transaction has
\* consumed the buffer exactly.
C4_MalformedInputFails ==
  /\ ~WellFormedHex(rawtx) => pc \in {"start", "error"}
  /\ ghost.maxEnd > Len(buffer) => pc = "error"
  /\ pc = "done" => offset = Len(buffer) /\ tx.size = Len(buffer)
  /\ pc = "error" => tx = NoTx

\* a read ran past the end of a non-empty buffer and the decode failed
C4_Witness ==
  /\ pc = "error"
  /\ Len(buffer) > 0
  /\ ghost.maxEnd > Len(buffer)


\* ====================================================== standardness

\* ------------------------------------------------- policy constants

MAX_STANDARD_TX_WEIGHT == 400000
MAX_BLOCK_SIGOPS_COST == 80000
MAX_STANDARD_TX_SIGOPS_COST == MAX_BLOCK_SIGOPS_COST \div 5
MIN_STANDARD_TX_NONWITNESS_SIZE == 65
MAX_P2SH_SIGOPS == 15
MAX_STANDARD_SCRIPTSIG_SIZE == 1650
DUST_RELAY_TX_FEE == 3
MAX_OP_RETURN_RELAY == 83
DEFAULT_PERMIT_BAREMULTISIG == TRUE

\* the value of a missing property
Undefined == "undefined"

\* the opcode table: number -> mnemonic
opcodes ==
     0 :> "OP_0" @@ 76 :> "OP_PUSHDATA1" @@ 77 :> "OP_PUSHDATA2" @@ 78 :> "OP_PUSHDATA4"
  @@ 79 :> "OP_PUSHNUM_NEG1" @@ 80 :> "OP_RESERVED" @@ 81 :> "OP_PUSHNUM_1" @@ 82 :> "OP_PUSHNUM_2"
  @@ 83 :> "OP_PUSHNUM_3" @@ 84 :> "OP_PUSHNUM_4" @@ 85 :> "OP_PUSHNUM_5" @@ 86 :> "OP_PUSHNUM_6"
  @@ 87 :> "OP_PUSHNUM_7" @@ 88 :> "OP_PUSHNUM_8" @@ 89 :> "OP_PUSHNUM_9" @@ 90 :> "OP_PUSHNUM_10"
  @@ 91 :> "OP_PUSHNUM_11" @@ 92 :> "OP_PUSHNUM_12" @@ 93 :> "OP_PUSHNUM_13" @@ 94 :> "OP_PUSHNUM_14"
  @@ 95 :> "OP_PUSHNUM_15" @@ 96 :> "OP_PUSHNUM_16" @@ 97 :> "OP_NOP" @@ 98 :> "OP_VER"
  @@ 99 :> "OP_IF" @@ 100 :> "OP_NOTIF" @@ 101 :> "OP_VERIF" @@ 102 :> "OP_VERNOTIF"
  @@ 103 :> "OP_ELSE" @@ 104 :> "OP_ENDIF" @@ 105 :> "OP_VERIFY" @@ 106 :> "OP_RETURN"
  @@ 107 :> "OP_TOALTSTACK" @@ 108 :> "OP_FROMALTSTACK" @@ 109 :> "OP_2DROP" @@ 110 :> "OP_2DUP"
  @@ 111 :> "OP_3DUP" @@ 112 :> "OP_2OVER" @@ 113 :> "OP_2ROT" @@ 114 :> "OP_2SWAP"
  @@ 115 :> "OP_IFDUP" @@ 116 :> "OP_DEPTH" @@ 117 :> "OP_DROP" @@ 118 :> "OP_DUP"
  @@ 119 :> "OP_NIP" @@ 120 :> "OP_OVER" @@ 121 :> "OP_PICK" @@ 122 :> "OP_ROLL"
  @@ 123 :> "OP_ROT" @@ 124 :> "OP_SWAP" @@ 125 :> "OP_TUCK" @@ 126 :> "OP_CAT"
  @@ 127 :> "OP_SUBSTR" @@ 128 :> "OP_LEFT" @@ 129 :> "OP_RIGHT" @@ 130 :> "OP_SIZE"
  @@ 131 :> "OP_INVERT" @@ 132 :> "OP_AND" @@ 133 :> "OP_OR" @@ 134 :> "OP_XOR"
  @@ 135 :> "OP_EQUAL" @@ 136 :> "OP_EQUALVERIFY" @@ 137 :> "OP_RESERVED1" @@ 138 :> "OP_RESERVED2"
  @@ 139 :> "OP_1ADD" @@ 140 :> "OP_1SUB" @@ 141 :> "OP_2MUL" @@ 142 :> "OP_2DIV"
  @@ 143 :> "OP_NEGATE" @@ 144 :> "OP_ABS" @@ 145 :> "OP_NOT" @@ 146 :> "OP_0NOTEQUAL"
  @@ 147 :> "OP_ADD" @@ 148 :> "OP_SUB" @@ 149 :> "OP_MUL" @@ 150 :> "OP_DIV"
  @@ 151 :> "OP_MOD" @@ 152 :> "OP_LSHIFT" @@ 153 :> "OP_RSHIFT" @@ 154 :> "OP_BOOLAND"
  @@ 155 :> "OP_BOOLOR" @@ 156 :> "OP_NUMEQUAL" @@ 157 :> "OP_NUMEQUALVERIFY" @@ 158 :> "OP_NUMNOTEQUAL"
  @@ 159 :> "OP_LESSTHAN" @@ 160 :> "OP_GREATERTHAN" @@ 161 :> "OP_LESSTHANOREQUAL" @@ 162 :> "OP_GREATERTHANOREQUAL"
  @@ 163 :> "OP_MIN" @@ 164 :> "OP_MAX" @@ 165 :> "OP_WITHIN" @@ 166 :> "OP_RIPEMD160"
  @@ 167 :> "OP_SHA1" @@ 168 :> "OP_SHA256" @@ 169 :> "OP_HASH160" @@ 170 :> "OP_HASH256"
  @@ 171 :> "OP_CODESEPARATOR" @@ 172 :> "OP_CHECKSIG" @@ 173 :> "OP_CHECKSIGVERIFY" @@ 174 :> "OP_CHECKMULTISIG"
  @@ 175 :> "OP_CHECKMULTISIGVERIFY" @@ 176 :> "OP_NOP1" @@ 177 :> "OP_CHECKLOCKTIMEVERIFY" @@ 178 :> "OP_CHECKSEQUENCEVERIFY"
  @@ 179 :> "OP_NOP4" @@ 180 :> "OP_NOP5" @@ 181 :> "OP_NOP6" @@ 182 :> "OP_NOP7"
  @@ 183 :> "OP_NOP8" @@ 184 :> "OP_NOP9" @@ 185 :> "OP_NOP10" @@ 186 :> "OP_CHECKSIGADD"
  @@ 253 :> "OP_PUBKEYHASH" @@ 254 :> "OP_PUBKEY" @@ 255 :> "OP_INVALIDOPCODE"

\* opcodes[op] for a string op: property keys of the table are its numbers in
\* decimal, so a mnemonic finds nothing and only a numeral finds an entry
OpcodesLookup(op) ==
  IF \E c \in DOMAIN opcodes : ToString(c) = op
    THEN opcodes[CHOOSE c \in DOMAIN opcodes : ToString(c) = op]
    ELSE Undefined

\* the mnemonics of the table in the order of their code units
MnemonicOrder ==
  << "OP_0", "OP_0NOTEQUAL", "OP_1ADD", "OP_1SUB", "OP_2DIV",
     "OP_2DROP", "OP_2DUP", "OP_2MUL", "OP_2OVER", "OP_2ROT",
     "OP_2SWAP", "OP_3DUP", "OP_ABS", "OP_ADD", "OP_AND",
     "OP_BOOLAND", "OP_BOOLOR", "OP_CAT", "OP_CHECKLOCKTIMEVERIFY", "OP_CHECKMULTISIG",
     "OP_CHECKMULTISIGVERIFY", "OP_CHECKSEQUENCEVERIFY", "OP_CHECKSIG", "OP_CHECKSIGADD", "OP_CHECKSIGVERIFY",
     "OP_CODESEPARATOR", "OP_DEPTH", "OP_DIV", "OP_DROP", "OP_DUP",
     "OP_ELSE", "OP_ENDIF", "OP_EQUAL", "OP_EQUALVERIFY", "OP_FROMALTSTACK",
     "OP_GREATERTHAN", "OP_GREATERTHANOREQUAL", "OP_HASH160", "OP_HASH256", "OP_IF",
     "OP_IFDUP", "OP_INVALIDOPCODE", "OP_INVERT", "OP_LEFT", "OP_LESSTHAN",
     "OP_LESSTHANOREQUAL", "OP_LSHIFT", "OP_MAX", "OP_MIN", "OP_MOD",
     "OP_MUL", "OP_NEGATE", "OP_NIP", "OP_NOP", "OP_NOP1",
     "OP_NOP10", "OP_NOP4", "OP_NOP5", "OP_NOP6", "OP_NOP7",
     "OP_NOP8", "OP_NOP9", "OP_NOT", "OP_NOTIF", "OP_NUMEQUAL",
     "OP_NUMEQUALVERIFY", "OP_NUMNOTEQUAL", "OP_OR", "OP_OVER", "OP_PICK",
     "OP_PUBKEY", "OP_PUBKEYHASH", "OP_PUSHDATA1", "OP_PUSHDATA2", "OP_PUSHDATA4",
     "OP_PUSHNUM_1", "OP_PUSHNUM_10", "OP_PUSHNUM_11", "OP_PUSHNUM_12", "OP_PUSHNUM_13",
     "OP_PUSHNUM_14", "OP_PUSHNUM_15", "OP_PUSHNUM_16", "OP_PUSHNUM_2", "OP_PUSHNUM_3",
     "OP_PUSHNUM_4", "OP_PUSHNUM_5", "OP_PUSHNUM_6", "OP_PUSHNUM_7", "OP_PUSHNUM_8",
     "OP_PUSHNUM_9", "OP_PUSHNUM_NEG1", "OP_RESERVED", "OP_RESERVED1", "OP_RESERVED2",
     "OP_RETURN", "OP_RIGHT", "OP_RIPEMD160", "OP_ROLL", "OP_ROT",
     "OP_RSHIFT", "OP_SHA1", "OP_SHA256", "OP_SIZE", "OP_SUB",
     "OP_SUBSTR", "OP_SWAP", "OP_TOALTSTACK", "OP_TUCK", "OP_VER",
     "OP_VERIF", "OP_VERIFY", "OP_VERNOTIF", "OP_WITHIN", "OP_XOR" >>

\* a > b of two property values: false when either side is undefined (NaN),
\* the order of the code units when both are strings
JsGreater(a, b) ==
  /\ a # Undefined
  /\ b # Undefined
  /\ \E i, j \in 1..Len(MnemonicOrder) : MnemonicOrder[i] = a /\ MnemonicOrder[j] = b /\ i > j

\* for (const op of scriptsig_asm.split(' ')) if (opcodes[op] && opcodes[op] > opcodes['OP_16'])
NotPushOnly(asm) ==
  \E k \in 1..Len(asm) :
    /\ OpcodesLookup(asm[k]) # Undefined
    /\ JsGreater(OpcodesLookup(asm[k]), OpcodesLookup("OP_16"))

\* ------------------------------------------------------ sigop count

\* a script in assembly is the sequence of its space-separated tokens

\* tokens in which /OP_CHECKSIG/ finds a match
CheckSigTokens == {"OP_CHECKSIG", "OP_CHECKSIGVERIFY", "OP_CHECKSIGADD"}

\* tokens in which /OP_CHECKMULTISIG/ finds a match
CheckMultisigTokens == {"OP_CHECKMULTISIG", "OP_CHECKMULTISIGVERIFY"}

NaN == 0 - 1

\* parseInt of the group (\d+) of /(?:OP_(?:PUSHNUM_)?(\d+))? OP_CHECKMULTISIG/
\* when tok is the token before the space
PrecedingNumber(tok) ==
  IF \E n \in 0..99 : tok \in {"OP_" \o ToString(n), "OP_PUSHNUM_" \o ToString(n)}
    THEN CHOOSE n \in 0..99 : tok \in {"OP_" \o ToString(n), "OP_PUSHNUM_" \o ToString(n)}
    ELSE NaN

RECURSIVE SumSeq(_)
SumSeq(s) ==
  IF Len(s) = 0 THEN 0
  ELSE IF Len(s) = 1 THEN s[1]
  ELSE LET h == Len(s) \div 2
       IN SumSeq(SubSeq(s, 1, h)) + SumSeq(SubSeq(s, h + 1, Len(s)))

\* countScriptSigops without the scaling of the non-witness count
countScriptSigopsUnscaled(script, isRawScript, witness) ==
  IF Len(script) = 0 THEN 0
  ELSE
    LET checksigs == Cardinality({k \in 1..Len(script) : script[k] \in CheckSigTokens})
        multisigs ==
          IF isRawScript
            THEN 20 * Cardinality({k \in 1..Len(script) : script[k] \in CheckMultisigTokens})
            ELSE SumSeq([k \in 1..Len(script) |->
                   IF k >= 2 /\ script[k] \in CheckMultisigTokens
                     THEN LET n == PrecedingNumber(script[k - 1])
                          IN IF n # NaN THEN n ELSE 20
                     ELSE 0])
    IN checksigs + multisigs

countScriptSigops(script, isRawScript, witness) ==
  IF Len(script) = 0 THEN 0
  ELSE
    LET checksigs == Cardinality({k \in 1..Len(script) : script[k] \in CheckSigTokens})
        multisigs ==
          IF isRawScript
            THEN 20 * Cardinality({k \in 1..Len(script) : script[k] \in CheckMultisigTokens})
            ELSE SumSeq([k \in 1..Len(script) |->
                   IF k >= 2 /\ script[k] \in CheckMultisigTokens
                     THEN LET n == PrecedingNumber(script[k - 1])
                          IN IF n # NaN THEN n ELSE 20
                     ELSE 0])
        sigops == checksigs + multisigs
    IN IF witness THEN sigops ELSE sigops * 4

\* ----------------------------------------- versioned standardness rules

V3_STANDARDNESS_ACTIVATION_HEIGHT ==
  ("testnet4" :> 42000 @@ "testnet" :> 2900000 @@ "signet" :> 211000 @@ "" :> 863500)

\* table[network]: 0 stands for the undefined of a missing key (both falsy)
HeightAt(table, network) == IF network \in DOMAIN table THEN table[network] ELSE 0

\* the version rule with height < activation in place of <=
isNonStandardVersionStrict(t, height, network) ==
  LET TX_MAX_STANDARD_VERSION ==
        IF /\ height # Null
           /\ network # NoNetwork
           /\ HeightAt(V3_STANDARDNESS_ACTIVATION_HEIGHT, network) # 0
           /\ height < HeightAt(V3_STANDARDNESS_ACTIVATION_HEIGHT, network)
          THEN 2 ELSE 3
  IN t.version > TX_MAX_STANDARD_VERSION

isNonStandardVersion(t, height, network) ==
  LET TX_MAX_STANDARD_VERSION ==
        IF /\ height # Null
           /\ network # NoNetwork
           /\ HeightAt(V3_STANDARDNESS_ACTIVATION_HEIGHT, network) # 0
           /\ height <= HeightAt(V3_STANDARDNESS_ACTIVATION_HEIGHT, network)
          THEN 2 ELSE 3
  IN t.version > TX_MAX_STANDARD_VERSION

ANCHOR_STANDARDNESS_ACTIVATION_HEIGHT ==
  ("testnet4" :> 42000 @@ "testnet" :> 2900000 @@ "signet" :> 211000 @@ "" :> 863500)

isNonStandardAnchor(t, height, network) ==
  /\ height # Null
  /\ network # NoNetwork
  /\ HeightAt(ANCHOR_STANDARDNESS_ACTIVATION_HEIGHT, network) # 0
  /\ height <= HeightAt(ANCHOR_STANDARDNESS_ACTIVATION_HEIGHT, network)

\* a scriptpubkey is the sequence of its bytes (hex length = 2 x Len)
isWitnessProgram(scriptpubkey) ==
  IF Len(scriptpubkey) < 4 \/ Len(scriptpubkey) > 42 THEN FALSE
  ELSE LET version == scriptpubkey[1]
           push == scriptpubkey[2]
       IN IF (version # 0 /\ version < 81) \/ version > 96 THEN FALSE
          ELSE push + 2 = Len(scriptpubkey)

\* script.utils (not in this file): the byte length of the varint of n; the
\* 9-byte form starts at 2^32, above every length held here
getVarIntLength(n) ==
  IF n < 253 THEN 1 ELSE IF n <= 65535 THEN 3 ELSE 5

\* script.utils (not in this file): the {m, n} of a bare multisig script, held by
\* the output as mOfN = [ok, m, n], ok false for a script that does not parse
parseMultisigScript(vout) == vout.mOfN

getNonWitnessSize(t) ==
  LET witnessBytes ==
        SumSeq([k \in 1..Len(t.vin) |->
          IF Len(t.vin[k].witness) > 0
            THEN getVarIntLength(Len(t.vin[k].witness))
                 + SumSeq([j \in 1..Len(t.vin[k].witness) |->
                     getVarIntLength(Len(t.vin[k].witness[j])) + Len(t.vin[k].witness[j])])
            ELSE 0])
      hasWitness == \E k \in 1..Len(t.vin) : Len(t.vin[k].witness) > 0
      weight == t.weight - witnessBytes - (IF hasWitness THEN 2 ELSE 0)
  IN 0 - ((0 - weight) \div 4)

\* ------------------------------------------------------ isNonStandard

\* one pass of the input loop with a coinbase input skipped instead of ending
\* the function
InputRuleSkipCoinbase(vin, t, height, network) ==
  IF vin.is_coinbase THEN "next"
  ELSE IF Len(vin.scriptsig) > MAX_STANDARD_SCRIPTSIG_SIZE THEN "true"
  ELSE IF NotPushOnly(vin.scriptsig_asm) THEN "true"
  ELSE IF vin.prevout_type = "p2sh"
    THEN IF countScriptSigops(vin.inner_redeemscript_asm, FALSE, FALSE) \div 4 > MAX_P2SH_SIGOPS
           THEN "true" ELSE "next"
  ELSE IF vin.prevout_type \in {"unknown", "provably_unspendable", "empty"} THEN "true"
  ELSE IF isNonStandardAnchor(t, height, network) THEN "true"
  ELSE "next"

\* one pass of the input loop: "false" and "true" are the returns of the
\* function, "next" goes on to the next input; a missing prevout has the type
\* Undefined, which is none of the listed ones
InputRule(vin, t, height, network) ==
  IF vin.is_coinbase THEN "false"
  ELSE IF Len(vin.scriptsig) > MAX_STANDARD_SCRIPTSIG_SIZE THEN "true"
  ELSE IF NotPushOnly(vin.scriptsig_asm) THEN "true"
  ELSE IF vin.prevout_type = "p2sh"
    THEN IF countScriptSigops(vin.inner_redeemscript_asm, FALSE, FALSE) \div 4 > MAX_P2SH_SIGOPS
           THEN "true" ELSE "next"
  ELSE IF vin.prevout_type \in {"unknown", "provably_unspendable", "empty"} THEN "true"
  ELSE IF isNonStandardAnchor(t, height, network) THEN "true"
  ELSE "next"

RECURSIVE InputLoop(_, _, _, _)
InputLoop(t, k, height, network) ==
  IF k > Len(t.vin) THEN "next"
  ELSE LET r == InputRule(t.vin[k], t, height, network)
       IN IF r # "next" THEN r ELSE InputLoop(t, k + 1, height, network)

\* the scriptpubkey checks without the test for a first byte 0x00
ScriptPubKeyRuleVersionZero(vout) ==
  IF vout.scriptpubkey_type \in {"nonstandard", "provably_unspendable", "empty"} THEN TRUE
  ELSE IF vout.scriptpubkey_type = "unknown" THEN ~isWitnessProgram(vout.scriptpubkey)
  ELSE IF vout.scriptpubkey_type = "multisig"
    THEN \/ ~DEFAULT_PERMIT_BAREMULTISIG
         \/ LET mOfN == parseMultisigScript(vout)
            IN ~mOfN.ok \/ mOfN.n < 1 \/ mOfN.n > 3 \/ mOfN.m < 1 \/ mOfN.m > mOfN.n
  ELSE IF vout.scriptpubkey_type = "op_return"
    THEN Len(vout.scriptpubkey) > MAX_OP_RETURN_RELAY
  ELSE FALSE

\* the scriptpubkey checks of one output, before the dust check
ScriptPubKeyRule(vout) ==
  IF vout.scriptpubkey_type \in {"nonstandard", "provably_unspendable", "empty"} THEN TRUE
  ELSE IF vout.scriptpubkey_type = "unknown"
    THEN (Len(vout.scriptpubkey) > 0 /\ vout.scriptpubkey[1] = 0)
         \/ ~isWitnessProgram(vout.scriptpubkey)
  ELSE IF vout.scriptpubkey_type = "multisig"
    THEN \/ ~DEFAULT_PERMIT_BAREMULTISIG
         \/ LET mOfN == parseMultisigScript(vout)
            IN ~mOfN.ok \/ mOfN.n < 1 \/ mOfN.n > 3 \/ mOfN.m < 1 \/ mOfN.m > mOfN.n
  ELSE IF vout.scriptpubkey_type = "op_return"
    THEN Len(vout.scriptpubkey) > MAX_OP_RETURN_RELAY
  ELSE FALSE

\* the dust check with value <= threshold in place of <
IsDustInclusive(vout) ==
  /\ vout.scriptpubkey_type # "op_return"
  /\ LET len == Len(vout.scriptpubkey)
         dustSize == len + getVarIntLength(len) + 8
                       + (IF isWitnessProgram(vout.scriptpubkey) THEN 67 ELSE 148)
     IN vout.value <= dustSize * DUST_RELAY_TX_FEE

\* the dust check of one output
IsDust(vout) ==
  /\ vout.scriptpubkey_type # "op_return"
  /\ LET len == Len(vout.scriptpubkey)
         dustSize == len + getVarIntLength(len) + 8
                       + (IF isWitnessProgram(vout.scriptpubkey) THEN 67 ELSE 148)
     IN vout.value < dustSize * DUST_RELAY_TX_FEE

\* the output loop with two op_return outputs allowed
RECURSIVE OutputLoopTwoAllowed(_, _, _)
OutputLoopTwoAllowed(vout, k, opreturnCount) ==
  IF k > Len(vout) THEN opreturnCount > 2
  ELSE IF ScriptPubKeyRule(vout[k]) \/ IsDust(vout[k]) THEN TRUE
  ELSE OutputLoopTwoAllowed(vout, k + 1,
         opreturnCount + (IF vout[k].scriptpubkey_type = "op_return" THEN 1 ELSE 0))

\* the output loop and the multi-op-return check after it
RECURSIVE OutputLoop(_, _, _)
OutputLoop(vout, k, opreturnCount) ==
  IF k > Len(vout) THEN opreturnCount > 1
  ELSE IF ScriptPubKeyRule(vout[k]) \/ IsDust(vout[k]) THEN TRUE
  ELSE OutputLoop(vout, k + 1,
         opreturnCount + (IF vout[k].scriptpubkey_type = "op_return" THEN 1 ELSE 0))

isNonStandard(t, height, network) ==
  IF isNonStandardVersion(t, height, network) THEN TRUE
  ELSE IF t.weight > MAX_STANDARD_TX_WEIGHT THEN TRUE
  ELSE IF getNonWitnessSize(t) < MIN_STANDARD_TX_NONWITNESS_SIZE THEN TRUE
  ELSE IF t.sigops # 0 /\ t.sigops > MAX_STANDARD_TX_SIGOPS_COST THEN TRUE
  ELSE LET r == InputLoop(t, 1, height, network)
       IN IF r # "next" THEN r = "true"
          ELSE OutputLoop(t.vout, 1, 0)

\* ------------------------------------- transactions given to isNonStandard

MaxStdVin == 2
MaxStdVout == 2

StdVin(coinbase, scriptsig, asm, type, redeem, witness) ==
  [is_coinbase |-> coinbase, scriptsig |-> scriptsig, scriptsig_asm |-> asm,
   prevout_type |-> type, inner_redeemscript_asm |-> redeem, witness |-> witness]

\* spends a p2pkh output; the pushed byte 0x97 prints as a numeral key of opcodes
VinPlain == StdVin(FALSE, <<1, 151>>, <<"OP_PUSHBYTES_1", "97">>, "p2pkh", <<>>, <<>>)
VinCoinbase == StdVin(TRUE, <<1, 0>>, <<"OP_PUSHBYTES_1", "00">>, Undefined, <<>>, <<>>)
VinNonPush == StdVin(FALSE, <<118, 172>>, <<"OP_DUP", "OP_CHECKSIG">>, "p2pkh", <<>>, <<>>)
VinBigScriptSig ==
  StdVin(FALSE, Rep(0, MAX_STANDARD_SCRIPTSIG_SIZE + 1), <<"OP_PUSHDATA2", "00">>, "p2pkh", <<>>, <<>>)
VinP2sh16 == StdVin(FALSE, <<1, 172>>, <<"OP_PUSHBYTES_1", "ac">>, "p2sh", Rep("OP_CHECKSIG", 16), <<>>)
VinP2shMultisig ==
  StdVin(FALSE, <<1, 174>>, <<"OP_PUSHBYTES_1", "ae">>, "p2sh",
         <<"OP_PUSHNUM_1", "OP_PUSHBYTES_33", "02aa", "OP_PUSHNUM_15", "OP_CHECKMULTISIG">>, <<>>)
VinUnknown == StdVin(FALSE, <<>>, <<>>, "unknown", <<>>, <<>>)
VinAnchor == StdVin(FALSE, <<>>, <<>>, "anchor", <<>>, <<>>)
VinWitness == StdVin(FALSE, <<>>, <<>>, "v0_p2wpkh", <<>>, <<Rep(48, 3), Rep(2, 2)>>)

StdVins ==
  {VinPlain, VinCoinbase, VinNonPush, VinBigScriptSig, VinP2sh16, VinP2shMultisig,
   VinUnknown, VinAnchor, VinWitness}

NoMofN == [ok |-> FALSE, m |-> 0, n |-> 0]

StdVout(type, script, value, mOfN) ==
  [scriptpubkey_type |-> type, scriptpubkey |-> script, value |-> value, mOfN |-> mOfN]

\* scripts and the value each needs not to be dust
P2pkhScript == <<118, 169, 20>> \o Rep(17, 20) \o <<136, 172>>
P2shScript == <<169, 20>> \o Rep(18, 20) \o <<135>>
P2trScript == <<81, 32>> \o Rep(19, 32)
FutureWitnessScript == <<82, 2, 1, 2>>
MultisigScript == <<81, 33>> \o Rep(2, 33) \o <<81, 174>>
LongMultisigScript == Rep(1, 253)

PayingOutputs ==
  { StdVout("v0_p2wpkh", P2wpkhScript, v, NoMofN) : v \in {293, 294} }
    \cup { StdVout("p2pkh", P2pkhScript, v, NoMofN) : v \in {545, 546} }
    \cup { StdVout("p2sh", P2shScript, v, NoMofN) : v \in {539, 540} }
    \cup { StdVout("v1_p2tr", P2trScript, v, NoMofN) : v \in {329, 330} }
    \cup { StdVout("unknown", FutureWitnessScript, v, NoMofN) : v \in {239, 240} }
    \cup { StdVout("multisig", MultisigScript, v, [ok |-> TRUE, m |-> 1, n |-> 1]) : v \in {581, 582} }
    \cup { StdVout("multisig", LongMultisigScript, v, [ok |-> TRUE, m |-> 2, n |-> 3]) : v \in {1235, 1236} }

OpReturnOutput == StdVout("op_return", <<106, 1, 0>>, 0, NoMofN)

OtherOutputs ==
  { OpReturnOutput,
    StdVout("op_return", <<106, 76, 81>> \o Rep(0, 81), 0, NoMofN),
    StdVout("unknown", <<97>>, 1000, NoMofN),
    StdVout("unknown", <<0, 2, 1, 2>>, 1000, NoMofN),
    StdVout("nonstandard", <<1>>, 1000, NoMofN),
    StdVout("multisig", MultisigScript, 1000, [ok |-> TRUE, m |-> 1, n |-> 4]),
    StdVout("multisig", MultisigScript, 1000, [ok |-> TRUE, m |-> 2, n |-> 1]),
    StdVout("multisig", MultisigScript, 1000, NoMofN) }

StdVouts == PayingOutputs \cup OtherOutputs

GoodOutput == StdVout("v0_p2wpkh", P2wpkhScript, 294, NoMofN)

StdTx(version, weight, sigops, vin, vout) ==
  [version |-> version, weight |-> weight, sigops |-> sigops, vin |-> vin, vout |-> vout]

ActivationHeights == {42000, 211000, 863500, 2900000}
StdHeights == {Null, 0} \cup ActivationHeights \cup {h + 1 : h \in ActivationHeights}
StdNetworks == {NoNetwork, "", "testnet4", "testnet", "signet", "liquid"}

\* every list of inputs, a few outputs, heights on both sides of an activation
StdInputFamily ==
  { [t |-> StdTx(2, 1000, 0, vin, vout), height |-> hn[1], network |-> hn[2]] :
      vin \in SeqsUpTo(StdVins, MaxStdVin),
      vout \in {<<GoodOutput>>, <<OpReturnOutput, OpReturnOutput>>,
                <<StdVout("v0_p2wpkh", P2wpkhScript, 293, NoMofN)>>},
      hn \in {<<Null, NoNetwork>>, <<863500, "">>, <<863501, "">>, <<0, "liquid">>} }

\* every list of outputs behind an ordinary input and behind a coinbase input
StdOutputFamily ==
  { [t |-> StdTx(2, 1000, 0, vin, vout), height |-> Null, network |-> NoNetwork] :
      vin \in {<<VinPlain>>, <<VinCoinbase>>}, vout \in SeqsUpTo(StdVouts, MaxStdVout) }

\* versions, weights and sigop costs around their limits at every height and network
StdHeaderFamily ==
  { [t |-> StdTx(version, ws[1], ws[2], vin, vout), height |-> height, network |-> network] :
      version \in {0 - 1, 0, 1, 2, 3, 4},
      ws \in {<<1000, 0>>, <<400000, 16000>>, <<400001, 0>>, <<1000, 16001>>, <<257, 0>>, <<256, 0>>},
      vin \in {<<VinPlain>>, <<VinCoinbase>>},
      vout \in {<<GoodOutput>>, <<OpReturnOutput, OpReturnOutput>>},
      height \in StdHeights, network \in StdNetworks }

\* witness bytes taken off the weight around the size limit
StdSizeFamily ==
  { [t |-> StdTx(2, weight, 0, <<VinWitness>>, <<GoodOutput>>), height |-> Null, network |-> NoNetwork] :
      weight \in 264..272 }

\* scripts of outputs of type unknown: around the lengths, versions and push
\* bytes of a witness program
UnknownScripts ==
  { <<>>, <<81>>, <<81, 1, 1>>, <<81, 2, 1, 2>>, <<80, 2, 1, 2>>, <<96, 2, 1, 2>>,
    <<97, 2, 1, 2>>, <<0, 2, 1, 2>>, <<81, 3, 1, 2>>, <<81, 1, 1, 2>>,
    <<81, 40>> \o Rep(1, 40), <<81, 41>> \o Rep(1, 41), <<0, 40>> \o Rep(1, 40),
    <<106, 2, 1, 2>> }

\* an output of type unknown, or of a type that is never standard, alone and
\* behind a paying output
StdUnknownFamily ==
  { [t |-> StdTx(2, 1000, 0, vin, before \o <<StdVout(type, script, 1000, NoMofN)>>),
     height |-> Null, network |-> NoNetwork] :
      vin \in {<<VinPlain>>, <<VinCoinbase>>}, before \in {<<>>, <<GoodOutput>>},
      type \in {"unknown", "nonstandard", "provably_unspendable", "empty"},
      script \in UnknownScripts }

StdInputs ==
  StdInputFamily \cup StdOutputFamily \cup StdHeaderFamily \cup StdSizeFamily
    \cup StdUnknownFamily

CodecIdle ==
  /\ rawtx = <<>> /\ buffer = <<>> /\ offset = 0 /\ pc = "idle"
  /\ tx = NoTx /\ loc = NoLoc /\ ghost = NoGhost

InitStd ==
  /\ CodecIdle
  /\ \E inp \in StdInputs : stx = inp.t /\ sheight = inp.height /\ snetwork = inp.network
  /\ sresult = "none"
  /\ PriIdle /\ SigIdle /\ AdrIdle /\ FlgIdle /\ DisIdle /\ EncIdle /\ CntIdle /\ TapIdle

CallIsNonStandard ==
  /\ sresult = "none"
  /\ pc = "idle"
  /\ sresult' = IF isNonStandard(stx, sheight, snetwork) THEN "true" ELSE "false"
  /\ UNCHANGED <<codecVars, stx, sheight, snetwork, callVars>>

NextStd == CallIsNonStandard

SpecStd == InitStd /\ [][NextStd]_vars

\* ------------------------------------------ standardness: claims C5..C10

Called == sresult # "none"

OpReturnCount(t) ==
  Cardinality({k \in 1..Len(t.vout) : t.vout[k].scriptpubkey_type = "op_return"})

HasCoinbase(t) == \E k \in 1..Len(t.vin) : t.vin[k].is_coinbase

\* height and network are both given, the network is listed and the height is
\* at or below its activation height (the same for v3 and for anchors)
BeforeActivation(height, network) ==
  /\ height # Null
  /\ \/ network = "" /\ height <= 863500
     \/ network = "testnet4" /\ height <= 42000
     \/ network = "testnet" /\ height <= 2900000
     \/ network = "signet" /\ height <= 211000

\* the checks that come before the input loop let the transaction through
PassesHeaderChecks(t, height, network) ==
  /\ t.version <= (IF BeforeActivation(height, network) THEN 2 ELSE 3)
  /\ t.weight <= 400000
  /\ getNonWitnessSize(t) >= 65
  /\ t.sigops <= 16000

\* C5 (as claimed): a transaction with two or more op_return outputs is
\* non-standard whatever its inputs, other outputs, version, weight, sigops,
\* height and network are.
C5_MultiOpReturn ==
  Called /\ OpReturnCount(stx) >= 2 => sresult = "true"

\* C5 (amended): a transaction with two or more op_return outputs is
\* non-standard whenever it has no coinbase input; with a coinbase input first
\* and the version, weight, size and sigops checks passed it is standard.
C5_MultiOpReturnNoCoinbase ==
  Called /\ OpReturnCount(stx) >= 2 =>
    /\ ~HasCoinbase(stx) => sresult = "true"
    /\ (/\ PassesHeaderChecks(stx, sheight, snetwork)
        /\ Len(stx.vin) > 0
        /\ stx.vin[1].is_coinbase) => sresult = "false"

\* two small op_return outputs behind one ordinary input, nothing else wrong
C5_Witness ==
  /\ Called
  /\ stx.vin = <<VinPlain>>
  /\ stx.vout = <<OpReturnOutput, OpReturnOutput>>
  /\ PassesHeaderChecks(stx, sheight, snetwork)
  /\ ~BeforeActivation(sheight, snetwork)
  /\ sresult = "true"

\* mnemonics of the opcodes above OP_16 (0x60)
NonPushMnemonics == {opcodes[c] : c \in {d \in DOMAIN opcodes : d > 96}}

\* C6 (as claimed): a transaction that passes the version, weight, size and
\* sigops checks and has no coinbase input is non-standard if the scriptsig_asm
\* of some input holds the mnemonic of an opcode above OP_16.
C6_NonPushOnlyScriptSig ==
  (/\ Called
   /\ PassesHeaderChecks(stx, sheight, snetwork)
   /\ ~HasCoinbase(stx)
   /\ \E k \in 1..Len(stx.vin) : \E j \in 1..Len(stx.vin[k].scriptsig_asm) :
        stx.vin[k].scriptsig_asm[j] \in NonPushMnemonics)
  => sresult = "true"

\* the transaction is standard when no height and network are given, and its
\* version is one the version rule accepts at every height
StandardAtAnyHeight(t) == t.version <= 2 /\ ~isNonStandard(t, Null, NoNetwork)

SpendsAnchor(t) == \E k \in 1..Len(t.vin) : t.vin[k].prevout_type = "anchor"

\* C7 (as claimed): the anchor rule rejects only a transaction that spends an
\* anchor output at or below the activation height of a listed network; a
\* transaction that violates no other rule and spends no anchor output is
\* standard at such a height too.
C7_AnchorGating ==
  Called /\ StandardAtAnyHeight(stx) =>
    /\ sresult = "true" => SpendsAnchor(stx) /\ BeforeActivation(sheight, snetwork)
    /\ BeforeActivation(sheight, snetwork) /\ ~SpendsAnchor(stx) => sresult = "false"

\* the byte length of the varint of a script length
VarintLength(n) == IF n < 253 THEN 1 ELSE 3

\* a version byte 0 or OP_1..OP_16, then one push of 2 to 40 bytes that ends the script
WitnessProgramScript(s) ==
  /\ Len(s) \in 4..42
  /\ s[1] \in {0} \cup (81..96)
  /\ s[2] = Len(s) - 2

DustThreshold(s) ==
  3 * (Len(s) + VarintLength(Len(s)) + 8 + (IF WitnessProgramScript(s) THEN 67 ELSE 148))

\* t with every output other than op_return paid far above any threshold
PaidAmply(t) ==
  [t EXCEPT !.vout = [k \in 1..Len(t.vout) |->
     IF t.vout[k].scriptpubkey_type = "op_return" THEN t.vout[k]
     ELSE [t.vout[k] EXCEPT !.value = 100000000]]]

C9_CoinbaseShortCircuit ==
  Called /\ PassesHeaderChecks(stx, sheight, snetwork) =>
    \A k \in 1..Len(stx.vin) :
      /\ (/\ stx.vin[k].is_coinbase
          /\ \A j \in 1..(k - 1) : InputRule(stx.vin[j], stx, sheight, snetwork) = "next")
         => sresult = "false"
      /\ (/\ \A j \in 1..k : ~stx.vin[j].is_coinbase
          /\ \/ Len(stx.vin[k].scriptsig) > 1650
             \/ stx.vin[k].prevout_type = "unknown")
         => sresult = "true"

\* a coinbase input behind an ordinary one, in front of two op_return outputs
C9_Witness ==
  /\ Called
  /\ PassesHeaderChecks(stx, sheight, snetwork)
  /\ stx.vin = <<VinPlain, VinCoinbase>>
  /\ OpReturnCount(stx) = 2
  /\ sresult = "false"

\* C10: version > 3 is always non-standard; version 3 is non-standard when
\* height and network are given, the network is listed and the height is at or
\* below its activation height; the version rule rejects no version <= 2, and
\* no version 3 when height or network is omitted or the height is above the
\* activation height: the result is then that of the other rules.
C10_VersionGating ==
  Called =>
    /\ stx.version > 3 => sresult = "true"
    /\ stx.version = 3 /\ BeforeActivation(sheight, snetwork) => sresult = "true"
    /\ (\/ stx.version <= 2
        \/ /\ stx.version = 3
           /\ \/ sheight = Null
              \/ snetwork = NoNetwork
              \/ snetwork \in {"", "testnet4", "testnet", "signet"}
                   /\ ~BeforeActivation(sheight, snetwork))
       => /\ ~isNonStandardVersion(stx, sheight, snetwork)
          /\ (sresult = "true") = isNonStandard([stx EXCEPT !.version = 2], sheight, snetwork)

\* version 3 at exactly the activation height of mainnet, on a coinbase
\* transaction, which no other rule rejects
C10_Witness ==
  /\ Called
  /\ stx.version = 3
  /\ sheight = 863500 /\ snetwork = ""
  /\ stx.vin = <<VinCoinbase>>
  /\ stx.weight = 1000 /\ stx.sigops = 0
  /\ sresult = "true"

\* ------------------------------------------------------------ claim C25

\* the stated condition for an output of type unknown to pass the script-type
\* rule
UnknownPasses(vout) ==
  /\ Len(vout.scriptpubkey) \in 4..42
  /\ vout.scriptpubkey[1] \in 81..96
  /\ vout.scriptpubkey[2] = Len(vout.scriptpubkey) - 2

\* an output that the script-type rule refuses, as stated
RefusedOutput(vout) ==
  \/ vout.scriptpubkey_type \in {"nonstandard", "provably_unspendable", "empty"}
  \/ vout.scriptpubkey_type = "unknown" /\ ~UnknownPasses(vout)

\* the last output is of type unknown and is not dust, and nothing before it
\* in the transaction decides the result
OnlyUnknownDecides(t, height, network) ==
  /\ PassesHeaderChecks(t, height, network)
  /\ InputLoop(t, 1, height, network) = "next"
  /\ Len(t.vout) >= 1
  /\ t.vout[Len(t.vout)].scriptpubkey_type = "unknown"
  /\ t.vout[Len(t.vout)].value = 1000
  /\ \A k \in 1..(Len(t.vout) - 1) : t.vout[k] = GoodOutput

\* C25 (as claimed): an output of type unknown passes the script-type rule
\* exactly when its scriptPubKey has 4 to 42 bytes, a first byte in 0x51..0x60
\* and a second byte equal to its length minus 2; every other unknown output,
\* and every output of type nonstandard, provably_unspendable or empty, makes
\* isNonStandard return true.
C25_UnknownOutputsAnyInput ==
  Called =>
    /\ (\E k \in 1..Len(stx.vout) : RefusedOutput(stx.vout[k])) => sresult = "true"
    /\ OnlyUnknownDecides(stx, sheight, snetwork)
         => (sresult = "false" <=> UnknownPasses(stx.vout[Len(stx.vout)]))

\* C25 (amended): the same for every transaction without a coinbase input.
C25_UnknownOutputs ==
  Called /\ ~HasCoinbase(stx) =>
    /\ (\E k \in 1..Len(stx.vout) : RefusedOutput(stx.vout[k])) => sresult = "true"
    /\ OnlyUnknownDecides(stx, sheight, snetwork)
         => (sresult = "false" <=> UnknownPasses(stx.vout[Len(stx.vout)]))

\* a 42-byte program of witness version 1 typed unknown goes through
C25_Witness ==
  /\ Called /\ ~HasCoinbase(stx)
  /\ OnlyUnknownDecides(stx, sheight, snetwork)
  /\ Len(stx.vout) = 2
  /\ Len(stx.vout[2].scriptpubkey) = 42
  /\ UnknownPasses(stx.vout[2])
  /\ sresult = "false"


\* ============================== identifyPrioritizedTransactions

\* A transaction is [txid, rate]; a rate r stands for the number r / 16, so that
\* rates, their differences and their comparisons are exact in doubles. X, P and
\* M are arrays indexed from 0; Hole is an element never assigned.

MaxTxs == 5
MaxRate == 4

Hole == 0 - 2

Abs(x) == IF x < 0 THEN 0 - x ELSE x

\* Math.abs(a - b) < 0.1 for a, b in sixteenths: 10 |a - b| < 16
WithinNoise(a, b) == 10 * Abs(a - b) < 16

ArrayOf(s) == [k \in 0..(Len(s) - 1) |-> s[k + 1]]

\* the binary search with >= in place of >
RECURSIVE BinarySearchStrict(_, _, _, _, _)
BinarySearchStrict(X, M, i, lo, hi) ==
  IF lo < hi
    THEN LET mid == lo + ((hi - lo) \div 2)
         IN IF X[M[mid]].rate >= X[i].rate
              THEN BinarySearchStrict(X, M, i, lo, mid)
              ELSE BinarySearchStrict(X, M, i, mid + 1, hi)
    ELSE lo

\* the binary search with < in place of >
RECURSIVE BinarySearchReversed(_, _, _, _, _)
BinarySearchReversed(X, M, i, lo, hi) ==
  IF lo < hi
    THEN LET mid == lo + ((hi - lo) \div 2)
         IN IF X[M[mid]].rate < X[i].rate
              THEN BinarySearchReversed(X, M, i, lo, mid)
              ELSE BinarySearchReversed(X, M, i, mid + 1, hi)
    ELSE lo

\* while (lo < hi) { mid = ...; if (X[M[mid]].rate > X[i].rate) hi = mid; else lo = mid + 1 }
RECURSIVE BinarySearch(_, _, _, _, _)
BinarySearch(X, M, i, lo, hi) ==
  IF lo < hi
    THEN LET mid == lo + ((hi - lo) \div 2)
         IN IF X[M[mid]].rate > X[i].rate
              THEN BinarySearch(X, M, i, lo, mid)
              ELSE BinarySearch(X, M, i, mid + 1, hi)
    ELSE lo

\* for (let j = L - 1; j >= 0; j--) { LIS[j] = X[k]; k = P[k]; } : the indices k
RECURSIVE Reconstruct(_, _, _)
Reconstruct(P, k, j) ==
  IF j < 0 THEN <<>> ELSE Reconstruct(P, P[k], j - 1) \o <<k>>

\* the walk's treatment of one transaction without the noise band
WalkStepNoBand(f, t) ==
  IF \E j \in 1..Len(f.LIS) : f.LIS[j].txid = t.txid
    THEN [f EXCEPT !.lastRate = t.rate]
  ELSE IF t.rate <= f.lastRate
    THEN [f EXCEPT !.prioritized = Append(@, t.txid)]
  ELSE [f EXCEPT !.deprioritized = Append(@, t.txid)]

\* one pass of for (const tx of X): lisMap.has(tx.txid) is membership of the txid
\* among those of LIS
WalkStep(f, t) ==
  IF \E j \in 1..Len(f.LIS) : f.LIS[j].txid = t.txid
    THEN [f EXCEPT !.lastRate = t.rate]
  ELSE IF WithinNoise(t.rate, f.lastRate) THEN f
  ELSE IF t.rate <= f.lastRate
    THEN [f EXCEPT !.prioritized = Append(@, t.txid)]
  ELSE [f EXCEPT !.deprioritized = Append(@, t.txid)]

\* the rates of the example of the specification: 5, 3, 8, 4, 9
ExampleRates == <<80, 48, 128, 64, 144>>

\* blocks: the coinbase (txid 0), then transactions with txid = position, in the
\* reverse of the order X has
BlockOf(rates) ==
  <<[txid |-> 0, rate |-> 0]>>
    \o [k \in 1..Len(rates) |-> [txid |-> k, rate |-> rates[Len(rates) + 1 - k]]]

PriInputs ==
  {<<>>} \cup { BlockOf(r) : r \in SeqsUpTo(1..MaxRate, MaxTxs) \cup {ExampleRates} }

InitPri ==
  /\ CodecIdle /\ StdIdle /\ sresult = "none"
  /\ SigIdle /\ AdrIdle /\ FlgIdle /\ DisIdle /\ EncIdle /\ CntIdle /\ TapIdle
  /\ \E b \in PriInputs :
       pri = [pc |-> "start", transactions |-> b, X |-> <<>>, N |-> 0, i |-> 0, L |-> 0,
              M |-> <<>>, P |-> <<>>, LIS |-> <<>>, lis |-> <<>>, w |-> 0, lastRate |-> 0,
              prioritized |-> <<>>, deprioritized |-> <<>>]

\* X = transactions.slice(1).reverse(); if (X.length < 2) return; N, P, M, L
PriStart ==
  /\ pri.pc = "start"
  /\ LET rest == IF Len(pri.transactions) > 0 THEN Tail(pri.transactions) ELSE <<>>
         X == ArrayOf(Reverse(rest))
         N == Len(rest)
     IN pri' = IF N < 2
                 THEN [pri EXCEPT !.pc = "done", !.X = X, !.N = N]
                 ELSE [pri EXCEPT !.pc = "loop", !.X = X, !.N = N, !.i = 0, !.L = 0,
                                  !.P = [k \in 0..(N - 1) |-> Hole],
                                  !.M = [k \in 0..N |-> IF k = 0 THEN 0 - 1 ELSE Hole]]
  /\ UNCHANGED <<codecVars, stdVars, sig, adr, flg, dis, enc, cnt, tap>>

\* one pass of for (let i = 0; i < N; i++)
PriIterate ==
  /\ pri.pc = "loop"
  /\ LET newL == BinarySearch(pri.X, pri.M, pri.i, 1, pri.L + 1)
     IN pri' = [pri EXCEPT !.P[pri.i] = pri.M[newL - 1],
                           !.M[newL] = pri.i,
                           !.L = IF newL > pri.L THEN newL ELSE pri.L,
                           !.i = pri.i + 1,
                           !.pc = IF pri.i + 1 < pri.N THEN "loop" ELSE "rebuild"]
  /\ UNCHANGED <<codecVars, stdVars, sig, adr, flg, dis, enc, cnt, tap>>

\* LIS = X at ..., P[P[M[L]]], P[M[L]], M[L]; lisMap
PriRebuild ==
  /\ pri.pc = "rebuild"
  /\ LET idx == Reconstruct(pri.P, pri.M[pri.L], pri.L - 1)
     IN pri' = [pri EXCEPT !.lis = idx, !.LIS = [j \in 1..Len(idx) |-> pri.X[idx[j]]],
                           !.w = 0, !.lastRate = 0, !.pc = "walk"]
  /\ UNCHANGED <<codecVars, stdVars, sig, adr, flg, dis, enc, cnt, tap>>

\* one pass of for (const tx of X); return { prioritized, deprioritized } after the last
PriWalk ==
  /\ pri.pc = "walk"
  /\ LET f == WalkStep(pri, pri.X[pri.w])
     IN pri' = [f EXCEPT !.w = pri.w + 1,
                         !.pc = IF pri.w + 1 < pri.N THEN "walk" ELSE "done"]
  /\ UNCHANGED <<codecVars, stdVars, sig, adr, flg, dis, enc, cnt, tap>>

NextPri == PriStart \/ PriIterate \/ PriRebuild \/ PriWalk

SpecPri == InitPri /\ [][NextPri]_vars

\* ------------------------------------------------------ claims C11, C12

\* the indices of s increase strictly and stay inside X
IsSubsequenceOfX(s) ==
  /\ \A j \in 1..Len(s) : s[j] \in 0..(pri.N - 1)
  /\ \A j \in 1..(Len(s) - 1) : s[j] < s[j + 1]

\* a set of indices of X whose rates do not decrease along X
NonDecreasingSet(S) ==
  \A a, b \in S : a < b => pri.X[a].rate <= pri.X[b].rate

\* C11: for a list of at least two non-coinbase transactions the reconstructed
\* LIS is a subsequence of X with non-decreasing rates, and no non-decreasing
\* subsequence of X is longer; for the rates 5, 3, 8, 4, 9 it is 3, 4, 9.
C11_LisCorrect ==
  pri.pc \in {"walk", "done"} /\ pri.N >= 2 =>
    /\ IsSubsequenceOfX(pri.lis)
    /\ pri.LIS = [j \in 1..Len(pri.lis) |-> pri.X[pri.lis[j]]]
    /\ \A j \in 1..(Len(pri.LIS) - 1) : pri.LIS[j].rate <= pri.LIS[j + 1].rate
    /\ \A S \in SUBSET (0..(pri.N - 1)) : NonDecreasingSet(S) => Cardinality(S) <= Len(pri.LIS)
    /\ [k \in 1..pri.N |-> pri.X[k - 1].rate] = ExampleRates
         => [j \in 1..Len(pri.LIS) |-> pri.LIS[j].rate] = <<48, 64, 144>>

\* the example of the specification, decided
C11_Witness ==
  /\ pri.pc = "done"
  /\ pri.N = 5
  /\ [k \in 1..pri.N |-> pri.X[k - 1].rate] = ExampleRates
  /\ [j \in 1..Len(pri.LIS) |-> pri.LIS[j].rate] = <<48, 64, 144>>

\* the rate of the last member of the LIS at or before index k of X, 0 if none
LastLisRate(k) ==
  LET seen == {j \in 1..Len(pri.lis) : pri.lis[j] <= k}
  IN IF seen = {} THEN 0
     ELSE pri.X[pri.lis[CHOOSE j \in seen : \A h \in seen : h <= j]].rate

InLis(k) == \E j \in 1..Len(pri.lis) : pri.lis[j] = k

\* rates at least 0.1 apart, in sixteenths: two or more
Apart(a, b) == Abs(a - b) >= 2

ToPrioritize(k) ==
  ~InLis(k) /\ Apart(pri.X[k].rate, LastLisRate(k)) /\ pri.X[k].rate <= LastLisRate(k)

ToDeprioritize(k) ==
  ~InLis(k) /\ Apart(pri.X[k].rate, LastLisRate(k)) /\ pri.X[k].rate > LastLisRate(k)

\* the txids of the indices 0..n-1 of X that satisfy keep, in the order of X
RECURSIVE TxidsWhere(_, _)
TxidsWhere(keep(_), n) ==
  IF n = 0 THEN <<>>
  ELSE TxidsWhere(keep, n - 1) \o (IF keep(n - 1) THEN <<pri.X[n - 1].txid>> ELSE <<>>)

\* C12: the two lists are those of the walk over X with lastRate the rate of the
\* most recent LIS member: LIS members and transactions within 0.1 of lastRate
\* are in neither list, the others are prioritized when rate <= lastRate and
\* deprioritized when rate > lastRate, in the order of X; the coinbase is in
\* neither; fewer than two transactions give two empty lists.
C12_PrioritizationRule ==
  pri.pc = "done" =>
    /\ pri.N >= 2 => /\ pri.prioritized = TxidsWhere(ToPrioritize, pri.N)
                     /\ pri.deprioritized = TxidsWhere(ToDeprioritize, pri.N)
    /\ pri.N < 2 => pri.prioritized = <<>> /\ pri.deprioritized = <<>>
    /\ \A j \in 1..Len(pri.prioritized) : pri.prioritized[j] # 0
    /\ \A j \in 1..Len(pri.deprioritized) : pri.deprioritized[j] # 0

\* a block with a prioritized, a deprioritized and an ignored transaction
C12_Witness ==
  /\ pri.pc = "done"
  /\ Len(pri.prioritized) > 0
  /\ Len(pri.deprioritized) > 0
  /\ \E k \in 0..(pri.N - 1) :
       ~InLis(k) /\ pri.X[k].txid \notin {pri.prioritized[j] : j \in 1..Len(pri.prioritized)}
                 /\ pri.X[k].txid \notin {pri.deprioritized[j] : j \in 1..Len(pri.deprioritized)}

\* ------------------------------------------------------------ claim C27

\* the transactions after the coinbase are in non-increasing order of rate
BlockInFeeOrder ==
  \A k \in 2..(Len(pri.transactions) - 1) :
    pri.transactions[k].rate >= pri.transactions[k + 1].rate

\* C27: for a block whose non-coinbase transactions are in non-increasing order
\* of fee rate, ties included, both lists are empty; they are also empty for a
\* block with fewer than two non-coinbase transactions.
C27_NoFalseReordering ==
  pri.pc = "done" /\ (BlockInFeeOrder \/ Len(pri.transactions) < 3) =>
    pri.prioritized = <<>> /\ pri.deprioritized = <<>>

\* four transactions in fee order with a tie, all of them in the LIS
C27_Witness ==
  /\ pri.pc = "done"
  /\ [k \in 1..(Len(pri.transactions) - 1) |-> pri.transactions[k + 1].rate] = <<4, 2, 2, 1>>
  /\ Len(pri.LIS) = 4
  /\ pri.prioritized = <<>> /\ pri.deprioritized = <<>>


\* ============================================== countScriptSigops, called

MaxTokens == 3

SigTokens ==
  {"OP_CHECKSIG", "OP_CHECKSIGVERIFY", "OP_CHECKSIGADD", "OP_CHECKMULTISIG",
   "OP_CHECKMULTISIGVERIFY", "OP_0", "OP_PUSHNUM_2", "OP_PUSHNUM_16", "OP_DUP",
   "OP_PUSHBYTES_33", "02a1a2a3a4a5a6a7a8a9aaabacadaeafb0b1b2b3b4b5b6b7b8b9babbbcbdbebfc0c1"}

InitSig ==
  /\ CodecIdle /\ StdIdle /\ sresult = "none"
  /\ PriIdle /\ AdrIdle /\ FlgIdle /\ DisIdle /\ EncIdle /\ CntIdle /\ TapIdle
  /\ \E s \in SeqsUpTo(SigTokens, MaxTokens), raw \in BOOLEAN :
       sig = [pc |-> "start", script |-> s, isRawScript |-> raw, asWitness |-> Null,
              asNonWitness |-> Null]

\* countScriptSigops(script, isRawScript, true)
CallSigopsWitness ==
  /\ sig.pc \in {"start", "called"}
  /\ sig.asWitness = Null
  /\ sig' = [sig EXCEPT !.asWitness = countScriptSigops(sig.script, sig.isRawScript, TRUE),
                        !.pc = "called"]
  /\ UNCHANGED <<codecVars, stdVars, pri, adr, flg, dis, enc, cnt, tap>>

\* countScriptSigops(script, isRawScript, false)
CallSigopsNonWitness ==
  /\ sig.pc \in {"start", "called"}
  /\ sig.asNonWitness = Null
  /\ sig' = [sig EXCEPT !.asNonWitness = countScriptSigops(sig.script, sig.isRawScript, FALSE),
                        !.pc = "called"]
  /\ UNCHANGED <<codecVars, stdVars, pri, adr, flg, dis, enc, cnt, tap>>

NextSig == CallSigopsWitness \/ CallSigopsNonWitness

SpecSig == InitSig /\ [][NextSig]_vars

\* ------------------------------------------------------ claims C13, C14

BothCounted == sig.pc = "called" /\ sig.asWitness # Null /\ sig.asNonWitness # Null

Occurrences(script, toks) == Cardinality({k \in 1..Len(script) : script[k] \in toks})

\* C13: for every script and isRawScript the count with witness = false is four
\* times the count with witness = true; a script with exactly k OP_CHECKSIG
\* tokens and no other signature opcode counts k as witness and 4k otherwise;
\* the empty script counts 0.
C13_SigopsScaling ==
  BothCounted =>
    /\ sig.asNonWitness = 4 * sig.asWitness
    /\ Occurrences(sig.script, (CheckSigTokens \cup CheckMultisigTokens) \ {"OP_CHECKSIG"}) = 0
         => sig.asWitness = Occurrences(sig.script, {"OP_CHECKSIG"})
    /\ sig.script = <<>> => sig.asWitness = 0 /\ sig.asNonWitness = 0

\* a script with two OP_CHECKSIG and no other signature opcode: 2 and 8
C13_Witness ==
  /\ BothCounted
  /\ Occurrences(sig.script, {"OP_CHECKSIG"}) = 2
  /\ Occurrences(sig.script, CheckSigTokens \cup CheckMultisigTokens) = 2
  /\ sig.asWitness = 2
  /\ sig.asNonWitness = 8

\* the count of the multisig opcode at position k as the specification states it
StatedMultisigCount(script, isRawScript, k) ==
  IF isRawScript THEN 20
  ELSE IF k >= 2 /\ \E n \in 1..16 : script[k - 1] = "OP_PUSHNUM_" \o ToString(n)
    THEN CHOOSE n \in 1..16 : script[k - 1] = "OP_PUSHNUM_" \o ToString(n)
  ELSE 20

\* C14: every OP_CHECKMULTISIG or OP_CHECKMULTISIGVERIFY counts 20 when
\* isRawScript is true; otherwise n when the token just before it is
\* OP_PUSHNUM_n (1 <= n <= 16) and 20 in every other case, the first token of
\* the script included.
C14_MultisigSigops ==
  BothCounted =>
    sig.asWitness =
      Occurrences(sig.script, CheckSigTokens)
        + SumSeq([k \in 1..Len(sig.script) |->
                    IF sig.script[k] \in CheckMultisigTokens
                      THEN StatedMultisigCount(sig.script, sig.isRawScript, k)
                      ELSE 0])

\* ------------------------------------------------------------ claim C23

\* the script with each OP_CHECKSIG and OP_CHECKSIGVERIFY token replaced by a
\* token that is neither a signature opcode nor a number
WithoutCheckSig(script) ==
  [k \in 1..Len(script) |->
     IF script[k] \in {"OP_CHECKSIG", "OP_CHECKSIGVERIFY"} THEN "OP_DUP" ELSE script[k]]

\* C23: before scaling, countScriptSigops adds 1 for each OP_CHECKSIG or
\* OP_CHECKSIGVERIFY token and nothing for a token that is none of OP_CHECKSIG,
\* OP_CHECKSIGVERIFY, OP_CHECKMULTISIG, OP_CHECKMULTISIGVERIFY: a script without
\* multisig opcodes counts its OP_CHECKSIG and OP_CHECKSIGVERIFY tokens, so
\* OP_CHECKSIGADD and data tokens add 0, and in every script the two opcodes
\* add their number to the count of the rest.
C23_OnlySignatureOpcodes ==
  BothCounted =>
    /\ Occurrences(sig.script, CheckMultisigTokens) = 0
         => sig.asWitness = Occurrences(sig.script, {"OP_CHECKSIG", "OP_CHECKSIGVERIFY"})
    /\ sig.asWitness =
         Occurrences(sig.script, {"OP_CHECKSIG", "OP_CHECKSIGVERIFY"})
           + countScriptSigops(WithoutCheckSig(sig.script), sig.isRawScript, TRUE)

\* ====================================================== address encoders

\* A string that is built or taken apart character by character (an address,
\* a prefix, a hex payload) is the sequence of its characters.

\* the bits lo..hi of a ^ b
RECURSIVE XorBits(_, _, _, _)
XorBits(a, b, lo, hi) ==
  IF lo = hi THEN (((a \div (2 ^ lo)) + (b \div (2 ^ lo))) % 2) * (2 ^ lo)
  ELSE LET mid == (lo + hi) \div 2
       IN XorBits(a, b, lo, mid) + XorBits(a, b, mid + 1, hi)

\* a ^ b of two numbers of 0..2^30-1
Xor(a, b) == IF a >= 0 /\ b >= 0 THEN XorBits(a, b, 0, 29) ELSE 0

GENERATORS == <<996825010, 642813549, 513874426, 1027748829, 705979059>>

polymodStep(pre) ==
  LET b == pre \div 33554432
      gen(k) == IF (b \div (2 ^ (k - 1))) % 2 = 1 THEN GENERATORS[k] ELSE 0
  IN IF pre >= 0
       THEN Xor((pre % 33554432) * 32,
                Xor(Xor(Xor(gen(1), gen(2)), Xor(gen(3), gen(4))), gen(5)))
       ELSE pre

\* chk = polymodStep(chk) ^ x for each x of values[lo..hi], in order: the first
\* half of the range, then the second
RECURSIVE PolymodFold(_, _, _, _)
PolymodFold(chk, values, lo, hi) ==
  IF lo > hi THEN chk
  ELSE IF lo = hi THEN Xor(polymodStep(chk), values[lo])
  ELSE LET mid == (lo + hi) \div 2
           half == PolymodFold(chk, values, lo, mid)
       IN IF half >= 0 THEN PolymodFold(half, values, mid + 1, hi) ELSE half

\* prefix.charCodeAt(i), for the letters of the prefixes
CharCode(c) == CASE c = "b" -> 98 [] c = "c" -> 99 [] c = "t" -> 116

prefixChk(prefix) ==
  LET high == PolymodFold(1, [k \in 1..Len(prefix) |-> CharCode(prefix[k]) \div 32], 1, Len(prefix))
  IN PolymodFold(polymodStep(high), [k \in 1..Len(prefix) |-> CharCode(prefix[k]) % 32],
                 1, Len(prefix))

\* createChecksum without the six closing steps
createChecksumUnclosed(prefix, words, constant) ==
  LET fed == PolymodFold(prefixChk(prefix), words, 1, Len(words))
      chk == Xor(fed, constant)
  IN IF fed >= 0 /\ chk >= 0 THEN [i \in 1..6 |-> (chk \div (32 ^ (6 - i))) % 32] ELSE <<>>

createChecksum(prefix, words, constant) ==
  LET fed == PolymodFold(prefixChk(prefix), words, 1, Len(words))
      closed == polymodStep(polymodStep(polymodStep(polymodStep(polymodStep(polymodStep(fed))))))
      chk == Xor(closed, constant)
  IN IF fed >= 0 /\ chk >= 0 THEN [i \in 1..6 |-> (chk \div (32 ^ (6 - i))) % 32] ELSE <<>>

BECH32_ALPHABET ==
  <<"q", "p", "z", "r", "y", "9", "x", "8", "g", "f", "2", "t", "v", "d", "w", "0",
    "s", "3", "j", "n", "5", "4", "k", "h", "c", "e", "6", "m", "u", "a", "7", "l">>

\* BECH32_ALPHABET.charAt(w): the empty string outside 0..31
Bech32CharAt(w) == IF w \in 0..31 THEN <<BECH32_ALPHABET[w + 1]>> ELSE <<>>

\* result += BECH32_ALPHABET.charAt(combined[i]) for i in lo..hi
RECURSIVE Bech32Chars(_, _, _)
Bech32Chars(combined, lo, hi) ==
  IF lo > hi THEN <<>>
  ELSE IF lo = hi THEN Bech32CharAt(combined[lo])
  ELSE LET mid == (lo + hi) \div 2
       IN Bech32Chars(combined, lo, mid) \o Bech32Chars(combined, mid + 1, hi)

bech32Encode(prefix, words, constant) ==
  LET checksum == createChecksum(prefix, words, constant)
      combined == words \o checksum
  IN IF Len(combined) >= 6
       THEN prefix \o <<"1">> \o Bech32Chars(combined, 1, Len(combined))
       ELSE prefix

\* acc << n of an int32
ShiftLeft32(acc, n) ==
  LET low == acc % (2 ^ (31 - n))
      top == (acc \div (2 ^ (31 - n))) % 2
  IN low * (2 ^ n) + top * (0 - 2147483647 - 1)

\* while (bits >= toBits) { bits -= toBits; ret.push((acc >> bits) & maxV) }
RECURSIVE EmitWords(_, _, _, _)
EmitWords(acc, bits, ret, toBits) ==
  IF bits >= toBits
    THEN EmitWords(acc, bits - toBits, Append(ret, (acc \div (2 ^ (bits - toBits))) % (2 ^ toBits)),
                   toBits)
    ELSE [acc |-> acc, bits |-> bits, ret |-> ret]

\* the for loop of convertBits over data[lo..hi] from the state s, the first
\* half of the range, then the second; no value of a byte array throws
RECURSIVE ConvertLoop(_, _, _, _, _, _)
ConvertLoop(s, data, lo, hi, fromBits, toBits) ==
  IF lo > hi THEN s
  ELSE IF lo = hi
    THEN EmitWords(ShiftLeft32(s.acc, fromBits) + data[lo], s.bits + fromBits, s.ret, toBits)
  ELSE LET mid == (lo + hi) \div 2
           half == ConvertLoop(s, data, lo, mid, fromBits, toBits)
       IN IF half.bits >= 0 THEN ConvertLoop(half, data, mid + 1, hi, fromBits, toBits)
          ELSE half

\* convertBits(data, fromBits, toBits, true)
convertBits(data, fromBits, toBits) ==
  LET s == ConvertLoop([acc |-> 0, bits |-> 0, ret |-> <<>>], data, 1, Len(data), fromBits,
                       toBits)
  IN IF s.bits > 0
       THEN Append(s.ret, ShiftLeft32(s.acc, toBits - s.bits) % (2 ^ toBits))
       ELSE s.ret

toWords(bytes) == convertBits(bytes, 8, 5)

\* ['testnet', 'testnet4', 'signet'].includes(network)
IsTestnet(network) == network \in {"testnet", "testnet4", "signet"}

BECH32M_CONST == 734539939

p2wpkh(pubKeyHash, network) ==
  bech32Encode(IF IsTestnet(network) THEN <<"t", "b">> ELSE <<"b", "c">>,
               <<0>> \o toWords(HexToBytes(pubKeyHash)), 1)

p2wsh(scriptHash, network) ==
  bech32Encode(IF IsTestnet(network) THEN <<"t", "b">> ELSE <<"b", "c">>,
               <<0>> \o toWords(HexToBytes(scriptHash)), 1)

p2tr(pubKeyHash, network) ==
  bech32Encode(IF IsTestnet(network) THEN <<"t", "b">> ELSE <<"b", "c">>,
               <<1>> \o toWords(HexToBytes(pubKeyHash)), BECH32M_CONST)


BASE58_ALPHABET ==
  <<"1", "2", "3", "4", "5", "6", "7", "8", "9", "A", "B", "C", "D", "E", "F", "G", "H",
    "J", "K", "L", "M", "N", "P", "Q", "R", "S", "T", "U", "V", "W", "X", "Y", "Z", "a",
    "b", "c", "d", "e", "f", "g", "h", "i", "j", "k", "m", "n", "o", "p", "q", "r", "s",
    "t", "u", "v", "w", "x", "y", "z">>

\* A bigint of base58Encode is the sequence of its base-256 digits, most
\* significant first. num / 58n and num % 58n: long division over the digits
\* lo..hi from the state s = [q, r], the first half of the range, then the second
RECURSIVE DivMod58(_, _, _, _)
DivMod58(s, num, lo, hi) ==
  IF lo > hi THEN s
  ELSE IF lo = hi
    THEN LET v == 256 * s.r + num[lo] IN [q |-> Append(s.q, v \div 58), r |-> v % 58]
  ELSE LET mid == (lo + hi) \div 2
           half == DivMod58(s, num, lo, mid)
       IN IF half.r >= 0 THEN DivMod58(half, num, mid + 1, hi) ELSE half

\* while (num > 0) { ...; encoded = BASE58_ALPHABET[remainder] + encoded }, up to
\* n iterations from the state s = [num, encoded]
RECURSIVE Base58Loop(_, _)
Base58Loop(s, n) ==
  IF n = 0 \/ \A k \in 1..Len(s.num) : s.num[k] = 0 THEN s
  ELSE IF n = 1
    THEN LET d == DivMod58([q |-> <<>>, r |-> 0], s.num, 1, Len(s.num))
         IN [num |-> d.q, encoded |-> <<BASE58_ALPHABET[d.r + 1]>> \o s.encoded]
  ELSE LET half == Base58Loop(s, n \div 2)
       IN IF Len(half.encoded) >= 0 THEN Base58Loop(half, n - (n \div 2)) ELSE half

\* the loop over the leading bytes left out
LeadingOnesNone(data) == <<>>

\* for (let byte of data) { if (byte === 0) encoded = "1" + encoded; else break }
LeadingOnes(data) ==
  LET zeros == {n \in 0..Len(data) : \A k \in 1..n : data[k] = 0}
  IN Rep("1", CHOOSE n \in zeros : \A h \in zeros : h <= n)

\* base58Encode of a non-empty array (BigInt("0x") throws for the empty one);
\* the while loop ends within two iterations for each byte, since 58^2 > 256
base58Encode(data) ==
  LeadingOnes(data) \o Base58Loop([num |-> data, encoded |-> <<>>], 2 * Len(data)).encoded

\* new Hash().update(data).digest() (sha256): 32 bytes that depend on the
\* data, not the digest itself
Digest(data) == [k \in 1..32 |-> (SumSeq(data) + 7 * Len(data) + 31 * k) % 256]

\* versionedPayload, checksum, finalPayload of p2pkh and p2sh
Base58Check(version, hash) ==
  LET versionedPayload == <<version>> \o hash
      checksum == SubSeq(Digest(Digest(versionedPayload)), 1, 4)
  IN base58Encode(versionedPayload \o checksum)

p2pkh(pubKeyHash, network) ==
  Base58Check(IF IsTestnet(network) THEN 111 ELSE 0, HexToBytes(pubKeyHash))

p2sh(scriptHash, network) ==
  Base58Check(IF IsTestnet(network) THEN 196 ELSE 5, HexToBytes(scriptHash))


\* ================================================ scriptPubKeyToAddress

\* A scriptPubKey is the sequence of the characters of its hex string.

MaxSpk == 4

LowerHex == {HexChars[k] : k \in 1..16}

\* /^ pre [0-9a-f]{n} post $/
Template(s, pre, n, post) ==
  /\ Len(s) = Len(pre) + n + Len(post)
  /\ SubSeq(s, 1, Len(pre)) = pre
  /\ SubSeq(s, Len(pre) + n + 1, Len(s)) = post
  /\ \A k \in (Len(pre) + 1)..(Len(pre) + n) : s[k] \in LowerHex

MatchP2pkh(s) == Template(s, <<"7", "6", "a", "9", "1", "4">>, 40, <<"8", "8", "a", "c">>)
MatchP2pk(s) ==
  \/ Template(s, <<"2", "1">>, 66, <<"a", "c">>)
  \/ Template(s, <<"4", "1">>, 130, <<"a", "c">>)
MatchP2sh(s) == Template(s, <<"a", "9", "1", "4">>, 40, <<"8", "7">>)
MatchP2wpkh(s) == Template(s, <<"0", "0", "1", "4">>, 40, <<>>)
MatchP2wsh(s) == Template(s, <<"0", "0", "2", "0">>, 64, <<>>)
MatchP2tr(s) == Template(s, <<"5", "1", "2", "0">>, 64, <<>>)
\* /^[0-9a-f]+ae$/
MatchMultisig(s) ==
  /\ Len(s) >= 3
  /\ SubSeq(s, Len(s) - 1, Len(s)) = <<"a", "e">>
  /\ \A k \in 1..(Len(s) - 2) : s[k] \in LowerHex
MatchAnchor(s) == s = <<"5", "1", "0", "2", "4", "e", "7", "3">>
\* /^6a/
MatchOpReturn(s) == Len(s) >= 2 /\ SubSeq(s, 1, 2) = <<"6", "a">>

\* 'bc1pfeessrawgf'
AnchorAddress == <<"b", "c", "1", "p", "f", "e", "e", "s", "s", "r", "a", "w", "g", "f">>

\* an address is the sequence of its characters, null is Null
scriptPubKeyToAddress(s, network) ==
  IF MatchP2pkh(s) THEN [address |-> p2pkh(SubSeq(s, 7, 46), network), type |-> "p2pkh"]
  ELSE IF MatchP2pk(s) THEN [address |-> Null, type |-> "p2pk"]
  ELSE IF MatchP2sh(s) THEN [address |-> p2sh(SubSeq(s, 5, 44), network), type |-> "p2sh"]
  ELSE IF MatchP2wpkh(s) THEN [address |-> p2wpkh(SubSeq(s, 5, 44), network), type |-> "v0_p2wpkh"]
  ELSE IF MatchP2wsh(s) THEN [address |-> p2wsh(SubSeq(s, 5, 68), network), type |-> "v0_p2wsh"]
  ELSE IF MatchP2tr(s) THEN [address |-> p2tr(SubSeq(s, 5, 68), network), type |-> "v1_p2tr"]
  ELSE IF MatchMultisig(s) THEN [address |-> Null, type |-> "multisig"]
  ELSE IF MatchAnchor(s) THEN [address |-> AnchorAddress, type |-> "anchor"]
  ELSE IF MatchOpReturn(s) THEN [address |-> Null, type |-> "op_return"]
  ELSE [address |-> Null, type |-> "unknown"]

\* payloads of n bytes ending in each of the bytes of ends
Payloads(n, ends) == { Rep(17, n - 1) \o <<e>> : e \in ends }

\* scripts of each template, with payloads that end in 0xae and that do not
SpkTemplates ==
  UNION { { <<118, 169, 20>> \o p \o <<136, 172>>, <<169, 20>> \o p \o <<135>>,
            <<0, 20>> \o p } : p \in Payloads(20, {1, 174}) }
  \cup UNION { { <<0, 32>> \o p, <<81, 32>> \o p } : p \in Payloads(32, {1, 174}) }
  \cup { <<33>> \o p \o <<172>> : p \in Payloads(33, {1, 174}) }
  \cup { <<65>> \o p \o <<172>> : p \in Payloads(65, {1}) }
  \cup { MultisigScript, <<81, 2, 78, 115>>, <<106, 1, 174>>, <<106, 1, 1>>, <<106>>,
         <<81, 1, 174>> }

SpkInputs ==
  { ToHex(b) : b \in SpkTemplates } \cup SeqsUpTo({"6", "a", "e", "G"}, MaxSpk)

AdrNetworks == {"", "mainnet", "testnet", "testnet4", "signet", "liquid"}

InitAdr ==
  /\ CodecIdle /\ StdIdle /\ sresult = "none"
  /\ PriIdle /\ SigIdle /\ FlgIdle /\ DisIdle /\ EncIdle /\ CntIdle /\ TapIdle
  /\ \E s \in SpkInputs, n \in AdrNetworks :
       adr = [pc |-> "start", scriptPubKey |-> s, network |-> n, result |-> Null]

CallScriptPubKeyToAddress ==
  /\ adr.pc = "start"
  /\ adr' = [adr EXCEPT !.pc = "done",
                        !.result = scriptPubKeyToAddress(adr.scriptPubKey, adr.network)]
  /\ UNCHANGED <<codecVars, stdVars, pri, sig, flg, dis, enc, cnt, tap>>

NextAdr == CallScriptPubKeyToAddress

SpecAdr == InitAdr /\ [][NextAdr]_vars

\* ------------------------------------------------------------ claim C15

\* the templates whose match condition the scriptPubKey satisfies
MatchedTemplates(s) ==
  {t \in {"p2pkh", "p2pk", "p2sh", "v0_p2wpkh", "v0_p2wsh", "v1_p2tr", "multisig",
          "anchor", "op_return"} :
     CASE t = "p2pkh" -> MatchP2pkh(s)
       [] t = "p2pk" -> MatchP2pk(s)
       [] t = "p2sh" -> MatchP2sh(s)
       [] t = "v0_p2wpkh" -> MatchP2wpkh(s)
       [] t = "v0_p2wsh" -> MatchP2wsh(s)
       [] t = "v1_p2tr" -> MatchP2tr(s)
       [] t = "multisig" -> MatchMultisig(s)
       [] t = "anchor" -> MatchAnchor(s)
       [] t = "op_return" -> MatchOpReturn(s)}

\* C15: no scriptPubKey satisfies the match condition of more than one of the
\* templates tried by scriptPubKeyToAddress, so the returned type is that of
\* the one template matched, whatever the order of the tests.
C15_PatternsExclusive ==
  adr.pc = "done" =>
    /\ Cardinality(MatchedTemplates(adr.scriptPubKey)) <= 1
    /\ \A t \in MatchedTemplates(adr.scriptPubKey) : adr.result.type = t

\* =================================================== getTransactionFlags

\* TransactionFlags (filters.utils) gives each named flag a bit of its own: a
\* bitfield is the set of the names of its bits, | is union, 0n is {}.
\* A witness item and a scriptpubkey are sequences of bytes (hex length =
\* 2 x Len); an address, an asm token and a public key are strings.

\* the hex string of a byte array
RECURSIVE HexStr(_)
HexStr(b) ==
  IF Len(b) = 0 THEN ""
  ELSE IF Len(b) = 1 THEN HexChars[(b[1] \div 16) + 1] \o HexChars[(b[1] % 16) + 1]
  ELSE LET h == Len(b) \div 2
       IN HexStr(SubSeq(b, 1, h)) \o HexStr(SubSeq(b, h + 1, Len(b)))

\* switch (signature.slice(-2))
setSighashFlags(flags, signature) ==
  LET last == IF Len(signature) = 0 THEN 0 - 1 ELSE signature[Len(signature)]
  IN flags \cup
       CASE last = 1 -> {"sighash_all"}
         [] last = 2 -> {"sighash_none"}
         [] last = 3 -> {"sighash_single"}
         [] last = 129 -> {"sighash_all", "sighash_acp"}
         [] last = 130 -> {"sighash_none", "sighash_acp"}
         [] last = 131 -> {"sighash_single", "sighash_acp"}
         [] OTHER -> {"sighash_default"}

isDERSig(w) ==
  /\ 2 * Len(w) >= 18
  /\ w[1] = 48
  /\ w[Len(w)] \in {1, 2, 3, 129, 130, 131}
  /\ 2 * Len(w) = 2 * w[2] + 6

\* witness[witness.length - 1].startsWith('50')
StartsWith50(item) == Len(item) >= 1 /\ item[1] = 80

setSchnorrSighashFlags(flags, witness) ==
  IF Len(witness) = 0 THEN flags
  ELSE
    LET hasAnnex == Len(witness) > 1 /\ StartsWith50(witness[Len(witness)])
    IN IF Len(witness) = (IF hasAnnex THEN 2 ELSE 1)
         THEN IF 2 * Len(witness[1]) = 130 THEN setSighashFlags(flags, witness[1])
              ELSE flags \cup {"sighash_default"}
         ELSE flags \cup UNION {
                IF 2 * Len(witness[i]) = 130 THEN setSighashFlags({}, witness[i])
                ELSE IF 2 * Len(witness[i]) = 128 THEN {"sighash_default"}
                ELSE {} : i \in 1..(Len(witness) - (IF hasAnnex THEN 3 ELSE 2)) }

setSegwitSighashFlags(flags, witness) ==
  flags \cup UNION { IF isDERSig(witness[i]) THEN setSighashFlags({}, witness[i]) ELSE {}
                       : i \in 1..Len(witness) }

\* item.startsWith('OP_'): the tokens that are mnemonics
IsOpToken(item) ==
  \/ item \in {opcodes[c] : c \in DOMAIN opcodes}
  \/ item \in {"OP_0", "OP_PUSHDATA1", "OP_PUSHDATA2", "OP_PUSHDATA4", "OP_PUSHNUM_NEG1",
               "OP_CLTV", "OP_CSV", "OP_CHECKSIGADD"}
  \/ \E n \in 0..255 : item \in {"OP_PUSHBYTES_" \o ToString(n), "OP_RETURN_" \o ToString(n)}

\* signatures that occur as data tokens of a scriptsig_asm; every other data
\* token of the model is shorter than 18 characters
DerSigAll == <<48, 6, 2, 1, 1, 2, 1, 1, 1>>
DerSigNoneAcp == <<48, 6, 2, 1, 1, 2, 1, 1, 130>>
KnownSignatures == {DerSigAll, DerSigNoneAcp}

\* the bytes of a data token
TokenBytes(item) ==
  IF \E b \in KnownSignatures : HexStr(b) = item
    THEN CHOOSE b \in KnownSignatures : HexStr(b) = item
    ELSE <<>>

setLegacySighashFlags(flags, scriptsig_asm) ==
  flags \cup UNION { IF ~IsOpToken(scriptsig_asm[i]) /\ isDERSig(TokenBytes(scriptsig_asm[i]))
                       THEN setSighashFlags({}, TokenBytes(scriptsig_asm[i])) ELSE {}
                       : i \in 1..Len(scriptsig_asm) }

BurnKeys ==
  {"022222222222222222222222222222222222222222222222222222222222222222",
   "033333333333333333333333333333333333333333333333333333333333333333",
   "020202020202020202020202020202020202020202020202020202020202020202",
   "030303030303030303030303030303030303030303030303030303030303030303"}

isBurnKey(pubkey) == pubkey \in BurnKeys

\* isPoint (script.utils): the keys that are points of the curve, among those
\* of the model
GoodKey == "02" \o HexStr(Rep(161, 32))
PointKeys == {GoodKey, "022222222222222222222222222222222222222222222222222222222222222222"}
isPoint(pubkey) == pubkey \in PointKeys

\* a value that is not truthy: 0, or an absent one, which is held as 0
Falsy(v) == v = 0
NoAddress(a) == a \in {Undefined, ""}

\* flags: the part of lines 344 to 357
VariableFlags(t, cpfpInfo, replacement) ==
  (IF t.has_flags THEN t.flags ELSE {})
    \cup (IF cpfpInfo.present /\ cpfpInfo.ancestors > 0 THEN {"cpfp_child"} ELSE {})
    \cup (IF cpfpInfo.present /\ cpfpInfo.descendants > 0 THEN {"cpfp_parent"} ELSE {})
    \cup (IF replacement THEN {"replacement"} ELSE {})

\* the test of line 360 never taken
HasStaticFlagsNever(t) == FALSE

\* if (tx.flags)
HasStaticFlags(t) == t.has_flags /\ t.flags # {}

VersionFlags(t) ==
  IF t.version = 1 THEN {"v1"} ELSE IF t.version = 2 THEN {"v2"}
  ELSE IF t.version = 3 THEN {"v3"} ELSE {}

\* vin.sequence < 0xfffffffe with <= in place of <
SignalsRbfInclusive(vin) == vin.sequence # 0 - 1

\* vin.sequence < 0xfffffffe, the sequence a uint32 held as an int32
SignalsRbf(vin) == vin.sequence \notin {0 - 2, 0 - 1}

InputTypeFlags(vin) ==
  CASE vin.prevout_type = "p2pk" -> {"p2pk"}
    [] vin.prevout_type = "multisig" -> {"p2ms"}
    [] vin.prevout_type = "p2pkh" -> {"p2pkh"}
    [] vin.prevout_type = "p2sh" -> {"p2sh"}
    [] vin.prevout_type = "v0_p2wpkh" -> {"p2wpkh"}
    [] vin.prevout_type = "v0_p2wsh" -> {"p2wsh"}
    [] vin.prevout_type = "v1_p2tr" ->
         {"p2tr"} \cup
           (IF /\ Len(vin.witness) > 0
               /\ Len(vin.witness) > (IF StartsWith50(vin.witness[Len(vin.witness)]) THEN 2 ELSE 1)
               /\ \E k \in 1..(Len(vin.inner_witnessscript_asm) - 1) :
                    /\ vin.inner_witnessscript_asm[k] = "OP_0"
                    /\ vin.inner_witnessscript_asm[k + 1] \in {"OP_IF", "OP_IFDUP"}
              THEN {"inscription"} ELSE {})
    [] OTHER -> {}

InputSighashFlags(vin) ==
  IF vin.prevout_type = "v1_p2tr" THEN setSchnorrSighashFlags({}, vin.witness)
  ELSE IF vin.has_witness THEN setSegwitSighashFlags({}, vin.witness)
  ELSE IF Len(vin.scriptsig) > 0 THEN setLegacySighashFlags({}, vin.scriptsig_asm)
  ELSE {}

\* hasFakePubkey after the output
OutputFakePubkey(vout) ==
  CASE vout.scriptpubkey_type = "p2pk" ->
         ~isPoint(HexStr(SubSeq(vout.scriptpubkey, 2, Len(vout.scriptpubkey) - 1)))
    [] vout.scriptpubkey_type = "multisig" ->
         \E k \in 1..Len(vout.scriptpubkey_asm) :
           /\ ~IsOpToken(vout.scriptpubkey_asm[k])
           /\ isBurnKey(vout.scriptpubkey_asm[k]) \/ ~isPoint(vout.scriptpubkey_asm[k])
    [] OTHER -> FALSE

OutputTypeFlags(vout) ==
  CASE vout.scriptpubkey_type = "p2pk" -> {"p2pk"}
    [] vout.scriptpubkey_type = "multisig" -> {"p2ms"}
    [] vout.scriptpubkey_type = "p2pkh" -> {"p2pkh"}
    [] vout.scriptpubkey_type = "p2sh" -> {"p2sh"}
    [] vout.scriptpubkey_type = "v0_p2wpkh" -> {"p2wpkh"}
    [] vout.scriptpubkey_type = "v0_p2wsh" -> {"p2wsh"}
    [] vout.scriptpubkey_type = "v1_p2tr" -> {"p2tr"}
    [] vout.scriptpubkey_type = "op_return" -> {"op_return"}
    [] OTHER -> {}

\* parseInt(vout.scriptpubkey.slice(4, 8), 16)
OlgaSize(script) ==
  IF Len(script) >= 4 THEN 256 * script[3] + script[4]
  ELSE IF Len(script) = 3 THEN script[3] ELSE NaN

\* the walk in which an output of another type does not reset P2WSHCount
RECURSIVE OlgaWalkNoReset(_, _)
OlgaWalkNoReset(vouts, k) ==
  IF k = 0 THEN [count |-> 0, size |-> 0, fake |-> FALSE]
  ELSE
    LET before == OlgaWalkNoReset(vouts, k - 1)
        script == vouts[k].scriptpubkey
    IN IF vouts[k].scriptpubkey_type # "v0_p2wsh" THEN before
       ELSE
         LET size == IF before.count = 0 THEN OlgaSize(script) ELSE before.size
             count == before.count + 1
             nullBytes == (count * 32) - size - 2
             hit == /\ size # NaN
                    /\ count = (size + 2 + 31) \div 32
                    /\ nullBytes <= Len(script)
                    /\ \A j \in (Len(script) - nullBytes + 1)..Len(script) : script[j] = 0
         IN [count |-> count, size |-> size, fake |-> before.fake \/ hit]

\* the walk of lines 458 to 471 up to output k: [count, size, fake]
RECURSIVE OlgaWalk(_, _)
OlgaWalk(vouts, k) ==
  IF k = 0 THEN [count |-> 0, size |-> 0, fake |-> FALSE]
  ELSE
    LET before == OlgaWalk(vouts, k - 1)
        script == vouts[k].scriptpubkey
    IN IF vouts[k].scriptpubkey_type # "v0_p2wsh" THEN [before EXCEPT !.count = 0]
       ELSE
         LET size == IF before.count = 0 THEN OlgaSize(script) ELSE before.size
             count == before.count + 1
             nullBytes == (count * 32) - size - 2
             hit == /\ size # NaN
                    /\ count = (size + 2 + 31) \div 32
                    /\ nullBytes <= Len(script)
                    /\ \A j \in (Len(script) - nullBytes + 1)..Len(script) : script[j] = 0
         IN [count |-> count, size |-> size, fake |-> before.fake \/ hit]

\* the number of keys of inValues or outValues: the distinct truthy values, and
\* randomKeys distinct values of Math.random() for the others
DistinctValues(values, randomKeys) ==
  Cardinality({values[k] : k \in {j \in 1..Len(values) : ~Falsy(values[j])}}) + randomKeys

\* the numbers of distinct values that n calls of Math.random() can give
RandomKeyCounts(values) ==
  LET n == Cardinality({j \in 1..Len(values) : Falsy(values[j])})
  IN IF n = 0 THEN {0} ELSE 1..n

InputValues(t) == [k \in 1..Len(t.vin) |-> t.vin[k].value]
OutputValues(t) == [k \in 1..Len(t.vout) |-> t.vout[k].value]

\* reusedInputAddresses[key] || 0, reusedOutputAddresses[key]
Uses(addresses, key) == Cardinality({k \in 1..Len(addresses) : addresses[k] = key})

\* line 480
addressReuse(t) ==
  LET ins == [k \in 1..Len(t.vin) |-> t.vin[k].address]
      outs == [k \in 1..Len(t.vout) |-> t.vout[k].address]
      keys == {outs[k] : k \in {j \in 1..Len(outs) : ~NoAddress(outs[j])}}
  IN \E key \in keys : Uses(ins, key) + Uses(outs, key) > 1

\* line 481
CoinjoinFlags(t, inKeys, outKeys) ==
  IF /\ ~addressReuse(t)
     /\ Len(t.vin) >= 5
     /\ Len(t.vout) >= 5
     /\ 2 * (DistinctValues(InputValues(t), inKeys) + DistinctValues(OutputValues(t), outKeys))
          <= Len(t.vin) + Len(t.vout)
    THEN {"coinjoin"} ELSE {}

\* lines 485 to 491: x / 0 is Infinity, 0 / 0 is NaN
RatioFlags(t) ==
  (IF (Len(t.vout) = 0 /\ Len(t.vin) > 0) \/ (Len(t.vout) > 0 /\ Len(t.vin) >= 5 * Len(t.vout))
     THEN {"consolidation"} ELSE {})
  \cup (IF Len(t.vout) > 0 /\ 5 * Len(t.vin) <= Len(t.vout) THEN {"batch_payout"} ELSE {})

\* the static flags of lines 365 to 495
StaticFlags(t, height, network, inKeys, outKeys) ==
  VersionFlags(t)
    \cup UNION {InputTypeFlags(t.vin[k]) \cup InputSighashFlags(t.vin[k]) : k \in 1..Len(t.vin)}
    \cup (IF \E k \in 1..Len(t.vin) : SignalsRbf(t.vin[k]) THEN {"rbf"} ELSE {"no_rbf"})
    \cup UNION {OutputTypeFlags(t.vout[k]) : k \in 1..Len(t.vout)}
    \cup (IF OlgaWalk(t.vout, Len(t.vout)).fake THEN {"fake_scripthash"} ELSE {})
    \cup (IF \E k \in 1..Len(t.vout) : OutputFakePubkey(t.vout[k]) THEN {"fake_pubkey"} ELSE {})
    \cup CoinjoinFlags(t, inKeys, outKeys)
    \cup RatioFlags(t)
    \cup (IF isNonStandard(t, height, network) THEN {"nonstandard"} ELSE {})

getTransactionFlags(t, cpfpInfo, replacement, height, network, inKeys, outKeys) ==
  IF HasStaticFlags(t) THEN VariableFlags(t, cpfpInfo, replacement)
  ELSE VariableFlags(t, cpfpInfo, replacement) \cup StaticFlags(t, height, network, inKeys, outKeys)

\* ------------------------------------------- getTransactionFlags, called

MaxJoin == 5
MaxFlgVin == 2

FlgVin(type, sequence, address, value, scriptsig, asm, has_witness, witness, wscript) ==
  [is_coinbase |-> FALSE, scriptsig |-> scriptsig, scriptsig_asm |-> asm,
   prevout_type |-> type, inner_redeemscript_asm |-> <<>>, witness |-> witness,
   has_witness |-> has_witness, sequence |-> sequence, address |-> address,
   value |-> value, inner_witnessscript_asm |-> wscript]

FlgVout(type, script, asm, address, value) ==
  [scriptpubkey_type |-> type, scriptpubkey |-> script, value |-> value, mOfN |-> NoMofN,
   address |-> address, scriptpubkey_asm |-> asm]

FlgTx(has_flags, flags, version, vin, vout) ==
  [version |-> version, weight |-> 1000, sigops |-> 0, vin |-> vin, vout |-> vout,
   has_flags |-> has_flags, flags |-> flags]

NoCpfp == [present |-> FALSE, ancestors |-> 0, descendants |-> 0]

\* a segwit input with the given sequence
SeqVin(sequence) ==
  FlgVin("v0_p2wpkh", sequence, "in", 5000, <<>>, <<>>, TRUE, <<DerSigAll, Rep(2, 33)>>, <<>>)

\* sequences on both sides of 0xfffffffe and of 2^31
FlgSequences == {0, 2147483647, 0 - 2147483647 - 1, 0 - 3, 0 - 2, 0 - 1}

Sig64 == Rep(7, 64)

\* inputs of each kind of spend
FlgVinKinds ==
  { SeqVin(0 - 1),
    FlgVin("p2pkh", 0 - 1, "in", 5000, <<9>> \o DerSigAll, <<"OP_PUSHBYTES_9", HexStr(DerSigAll)>>,
           FALSE, <<>>, <<>>),
    FlgVin("p2sh", 0 - 1, "in", 5000, <<9>> \o DerSigNoneAcp,
           <<"OP_PUSHBYTES_9", HexStr(DerSigNoneAcp)>>, FALSE, <<>>, <<>>),
    FlgVin("v0_p2wsh", 0 - 1, "in", 5000, <<>>, <<>>, TRUE, <<>>, <<>>),
    FlgVin("v1_p2tr", 0 - 1, "in", 5000, <<>>, <<>>, TRUE, <<Sig64>>, <<>>),
    FlgVin("v1_p2tr", 0 - 1, "in", 5000, <<>>, <<>>, TRUE, <<Sig64 \o <<131>>, <<80, 1>>>>, <<>>),
    FlgVin("v1_p2tr", 0 - 1, "in", 5000, <<>>, <<>>, TRUE, <<Sig64 \o <<2>>, <<0, 99, 104>>, <<192>>>>,
           <<"OP_0", "OP_IF", "OP_ENDIF">>),
    FlgVin("v1_p2tr", 0 - 1, "in", 5000, <<>>, <<>>, FALSE, <<>>, <<>>),
    FlgVin("p2pk", 0 - 1, "in", 5000, <<1, 151>>, <<"OP_PUSHBYTES_1", "97">>, FALSE, <<>>, <<>>),
    FlgVin("multisig", 0 - 1, "in", 5000, <<>>, <<>>, FALSE, <<>>, <<>>),
    FlgVin(Undefined, 0 - 1, Undefined, 0, <<>>, <<>>, FALSE, <<>>, <<>>) }

PlainOut(address, value) == FlgVout("v0_p2wpkh", P2wpkhScript, <<>>, address, value)

\* a v0_p2wsh output whose program starts with the given bytes
WshOut(program) == FlgVout("v0_p2wsh", <<0, 32>> \o program, <<>>, "wsh", 1000)

FlgVoutKinds ==
  { PlainOut("out", 1000),
    FlgVout("p2pk", <<33, 2>> \o Rep(161, 32) \o <<172>>, <<>>, Undefined, 1000),
    FlgVout("p2pk", <<33, 2>> \o Rep(0, 32) \o <<172>>, <<>>, Undefined, 1000),
    FlgVout("multisig", MultisigScript,
            <<"OP_PUSHNUM_1", "OP_PUSHBYTES_33", GoodKey, "OP_PUSHNUM_1", "OP_CHECKMULTISIG">>,
            Undefined, 1000),
    FlgVout("multisig", MultisigScript,
            <<"OP_PUSHNUM_1", "OP_PUSHBYTES_33",
              "022222222222222222222222222222222222222222222222222222222222222222",
              "OP_PUSHNUM_1", "OP_CHECKMULTISIG">>, Undefined, 1000),
    FlgVout("p2pkh", P2pkhScript, <<>>, "pkh", 1000),
    FlgVout("p2sh", P2shScript, <<>>, "sh", 1000),
    FlgVout("v1_p2tr", P2trScript, <<>>, "tr", 1000),
    FlgVout("op_return", <<106, 1, 0>>, <<>>, Undefined, 0),
    WshOut(<<0, 20>> \o Rep(9, 20) \o Rep(0, 10)),
    WshOut(<<0, 40>> \o Rep(9, 30)),
    WshOut(Rep(9, 10) \o Rep(0, 22)),
    WshOut(Rep(9, 32)) }

\* transactions that carry flags, or the value 0, with every cpfpInfo
FlgPrecomputedFamily ==
  { [t |-> FlgTx(hf[1], hf[2], 2, <<SeqVin(s)>>, <<PlainOut("out", 1000)>>),
     cpfpInfo |-> c, replacement |-> r, height |-> Null, network |-> NoNetwork] :
      hf \in {<<FALSE, {}>>, <<TRUE, {}>>, <<TRUE, {"v1", "rbf", "p2pkh"}>>,
              <<TRUE, {"no_rbf", "coinjoin", "cpfp_parent"}>>},
      s \in {0, 0 - 1},
      c \in {NoCpfp} \cup [present : {TRUE}, ancestors : {0, 2}, descendants : {0, 1}],
      r \in BOOLEAN }

FlgSequenceFamily ==
  { [t |-> FlgTx(FALSE, {}, v, [k \in DOMAIN ss |-> SeqVin(ss[k])], <<PlainOut("out", 1000)>>),
     cpfpInfo |-> NoCpfp, replacement |-> FALSE, height |-> Null, network |-> NoNetwork] :
      ss \in SeqsUpTo(FlgSequences, MaxFlgVin), v \in {1, 2} }

FlgKindFamily ==
  { [t |-> FlgTx(FALSE, {}, 3, vin, <<PlainOut("out", 1000)>>),
     cpfpInfo |-> NoCpfp, replacement |-> FALSE, height |-> hn[1], network |-> hn[2]] :
      vin \in SeqsUpTo(FlgVinKinds, MaxFlgVin), hn \in {<<Null, NoNetwork>>, <<863500, "">>} }
  \cup
  { [t |-> FlgTx(FALSE, {}, 2, <<SeqVin(0)>>, vout),
     cpfpInfo |-> NoCpfp, replacement |-> FALSE, height |-> Null, network |-> NoNetwork] :
      vout \in SeqsUpTo(FlgVoutKinds, 2) }

\* n addresses: all different, all the same, or none
JoinAddresses(pattern, prefix, n) ==
  [k \in 1..n |->
     CASE pattern = "distinct" -> prefix \o ToString(k)
       [] pattern = "same" -> prefix \o "1"
       [] pattern = "shared" -> IF k = 1 THEN "i1" ELSE prefix \o ToString(k)
       [] OTHER -> Undefined]

\* n values: all equal, all different, none, or one missing among equal ones
JoinValues(pattern, n) ==
  [k \in 1..n |->
     CASE pattern = "same" -> 1000
       [] pattern = "distinct" -> 1000 + k
       [] pattern = "mixed" -> IF k <= 2 THEN 0 ELSE 1000
       [] OTHER -> 0]

JoinVin(address, value) ==
  FlgVin("v0_p2wpkh", 0 - 1, address, value, <<>>, <<>>, TRUE, <<DerSigAll, Rep(2, 33)>>, <<>>)

\* transactions with four or more inputs and outputs
FlgJoinFamily ==
  { [t |-> FlgTx(FALSE, {}, 2,
                 [k \in 1..n[1] |-> JoinVin(JoinAddresses(p[1], "i", n[1])[k], JoinValues(p[2], n[1])[k])],
                 [k \in 1..n[2] |-> PlainOut(JoinAddresses(p[3], "o", n[2])[k], JoinValues(p[4], n[2])[k])]),
     cpfpInfo |-> NoCpfp, replacement |-> FALSE, height |-> Null, network |-> NoNetwork] :
      n \in (4..MaxJoin) \X (4..MaxJoin),
      p \in {"distinct", "same", "none"} \X {"same", "distinct", "none", "mixed"}
              \X {"distinct", "same", "none", "shared"} \X {"same", "distinct", "none"} }

\* many inputs for one output, and the reverse
FlgRatioFamily ==
  { [t |-> FlgTx(FALSE, {}, 2, Rep(SeqVin(0 - 1), n[1]), Rep(PlainOut("out", 1000), n[2])),
     cpfpInfo |-> NoCpfp, replacement |-> FALSE, height |-> Null, network |-> NoNetwork] :
      n \in {<<0, 0>>, <<0, 1>>, <<1, 0>>, <<5, 1>>, <<4, 1>>, <<1, 5>>, <<1, 4>>} }

\* three outputs among v0_p2wsh outputs that start or end a payload and an
\* output of another type
FlgRunFamily ==
  { [t |-> FlgTx(FALSE, {}, 2, <<SeqVin(0)>>, vout),
     cpfpInfo |-> NoCpfp, replacement |-> FALSE, height |-> Null, network |-> NoNetwork] :
      vout \in [1..3 -> { PlainOut("out", 1000), WshOut(<<0, 40>> \o Rep(9, 30)),
                          WshOut(Rep(9, 10) \o Rep(0, 22)), WshOut(<<0, 30>> \o Rep(9, 30)),
                          WshOut(<<0, 70>> \o Rep(9, 30)), WshOut(Rep(0, 32)) }] }

FlgInputs ==
  FlgPrecomputedFamily \cup FlgSequenceFamily \cup FlgKindFamily \cup FlgJoinFamily
    \cup FlgRatioFamily \cup FlgRunFamily

InitFlg ==
  /\ CodecIdle /\ StdIdle /\ sresult = "none"
  /\ PriIdle /\ SigIdle /\ AdrIdle /\ DisIdle /\ EncIdle /\ CntIdle /\ TapIdle
  /\ \E inp \in FlgInputs :
       flg = [pc |-> "start", tx |-> inp.t, given |-> inp.t, cpfpInfo |-> inp.cpfpInfo,
              replacement |-> inp.replacement, height |-> inp.height, network |-> inp.network,
              first |-> {}, second |-> {}]

\* flags = getTransactionFlags(tx, cpfpInfo, replacement, height, network): the
\* transaction is read only
CallGetTransactionFlags ==
  /\ flg.pc = "start"
  /\ \E inKeys \in RandomKeyCounts(InputValues(flg.tx)),
        outKeys \in RandomKeyCounts(OutputValues(flg.tx)) :
       flg' = [flg EXCEPT !.pc = "once",
                 !.first = getTransactionFlags(flg.tx, flg.cpfpInfo, flg.replacement, flg.height,
                                               flg.network, inKeys, outKeys)]
  /\ UNCHANGED <<codecVars, stdVars, pri, sig, adr, dis, enc, cnt, tap>>

\* the same call again
CallGetTransactionFlagsAgain ==
  /\ flg.pc = "once"
  /\ \E inKeys \in RandomKeyCounts(InputValues(flg.tx)),
        outKeys \in RandomKeyCounts(OutputValues(flg.tx)) :
       flg' = [flg EXCEPT !.pc = "twice",
                 !.second = getTransactionFlags(flg.tx, flg.cpfpInfo, flg.replacement, flg.height,
                                                flg.network, inKeys, outKeys)]
  /\ UNCHANGED <<codecVars, stdVars, pri, sig, adr, dis, enc, cnt, tap>>

NextFlg == CallGetTransactionFlags \/ CallGetTransactionFlagsAgain

SpecFlg == InitFlg /\ [][NextFlg]_vars

\* ------------------------------------------------------ claims C16 to C19

FlagsReturned == flg.pc \in {"once", "twice"}

\* tx.flags is present and not 0
Precomputed == flg.given.has_flags /\ flg.given.flags # {}

VariableFlagNames == {"cpfp_child", "cpfp_parent", "replacement"}

\* C16: when tx.flags is present and non-zero the result is tx.flags with only
\* these bits possibly added: cpfp_child when cpfpInfo.ancestors is non-empty,
\* cpfp_parent when cpfpInfo.descendants is non-empty, replacement when the
\* replacement argument is true; no bit of tx.flags is cleared and no static
\* flag is recomputed.
C16_PrecomputedFlags ==
  FlagsReturned /\ Precomputed =>
    /\ flg.given.flags \subseteq flg.first
    /\ flg.first \ flg.given.flags \subseteq VariableFlagNames
    /\ "cpfp_child" \in flg.first \ flg.given.flags
         => flg.cpfpInfo.present /\ flg.cpfpInfo.ancestors > 0
    /\ "cpfp_parent" \in flg.first \ flg.given.flags
         => flg.cpfpInfo.present /\ flg.cpfpInfo.descendants > 0
    /\ "replacement" \in flg.first \ flg.given.flags => flg.replacement
    /\ flg.cpfpInfo.present /\ flg.cpfpInfo.ancestors > 0 => "cpfp_child" \in flg.first
    /\ flg.cpfpInfo.present /\ flg.cpfpInfo.descendants > 0 => "cpfp_parent" \in flg.first
    /\ flg.replacement => "replacement" \in flg.first

\* flags v1, rbf, p2pkh kept on a version 2 transaction that does not signal,
\* with cpfp_child and replacement added
C16_Witness ==
  /\ FlagsReturned
  /\ flg.given.flags = {"v1", "rbf", "p2pkh"}
  /\ flg.given.version = 2
  /\ flg.given.vin[1].sequence = 0 - 1
  /\ flg.first = {"v1", "rbf", "p2pkh", "cpfp_child", "replacement"}

\* the sequence, a uint32, is below 0xfffffffe: compared by 16-bit halves
BelowMaxMinusOne(sequence) ==
  LET hi == (sequence \div 65536) % 65536
      lo == sequence % 65536
  IN hi < 65535 \/ (hi = 65535 /\ lo < 65534)

\* C17: a full pass returns exactly one of rbf and no_rbf: rbf when at least
\* one input has sequence < 0xfffffffe, no_rbf otherwise, a transaction with
\* no inputs included.
C17_RbfExclusive ==
  FlagsReturned /\ ~Precomputed =>
    LET signals == \E k \in 1..Len(flg.given.vin) : BelowMaxMinusOne(flg.given.vin[k].sequence)
    IN /\ "rbf" \in flg.first <=> signals
       /\ "no_rbf" \in flg.first <=> ~signals

\* two inputs, 0xfffffffe and 0x80000000: rbf; the first alone would not signal
C17_Witness ==
  /\ FlagsReturned /\ ~Precomputed
  /\ Len(flg.given.vin) = 2
  /\ flg.given.vin[1].sequence = 0 - 2
  /\ flg.given.vin[2].sequence = 0 - 2147483647 - 1
  /\ "rbf" \in flg.first
  /\ "no_rbf" \notin flg.first

AllAddresses(t) ==
  [k \in 1..Len(t.vin) |-> t.vin[k].address] \o [k \in 1..Len(t.vout) |-> t.vout[k].address]

\* the condition of the coinjoin bit as the specification states it
StatedCoinjoin(t) ==
  /\ Len(t.vin) >= 5
  /\ Len(t.vout) >= 5
  /\ \A a, b \in 1..Len(AllAddresses(t)) :
       a # b /\ ~NoAddress(AllAddresses(t)[a]) => AllAddresses(t)[a] # AllAddresses(t)[b]
  /\ 2 * (Cardinality({t.vin[k].value : k \in 1..Len(t.vin)})
            + Cardinality({t.vout[k].value : k \in 1..Len(t.vout)}))
       <= Len(t.vin) + Len(t.vout)

IsWsh(t, j) == t.vout[j].scriptpubkey_type = "v0_p2wsh"

\* the first output of the maximal run of consecutive v0_p2wsh outputs that
\* contains output j
RunStart(t, j) ==
  CHOOSE s \in 1..j :
    /\ \A i \in s..j : IsWsh(t, i)
    /\ s = 1 \/ ~IsWsh(t, s - 1)

\* the 16-bit big-endian value of the first two bytes of the program
PayloadLength(vout) == 256 * vout.scriptpubkey[3] + vout.scriptpubkey[4]

EndsWithZeros(script, n) ==
  /\ n <= Len(script)
  /\ \A i \in (Len(script) - n + 1)..Len(script) : script[i] = 0

StatedFakeScripthash(t) ==
  \E j \in 1..Len(t.vout) :
    /\ IsWsh(t, j)
    /\ LET L == PayloadLength(t.vout[RunStart(t, j)])
           k == j - RunStart(t, j) + 1
       IN /\ 32 * (k - 1) < L + 2
          /\ L + 2 <= 32 * k
          /\ EndsWithZeros(t.vout[j].scriptpubkey, 32 * k - L - 2)

\* C26: in a full pass fake_scripthash is set exactly when some v0_p2wsh output
\* j, the k-th of its run of consecutive v0_p2wsh outputs, has k = ceil((L + 2)
\* / 32) for L the 16-bit big-endian value of the first two program bytes of
\* the first output of the run, and a scriptPubKey that ends with 32k - L - 2
\* zero bytes; an output of another type ends the run.
C26_FakeScripthash ==
  (FlagsReturned /\ ~Precomputed) =>
    ("fake_scripthash" \in flg.first <=> StatedFakeScripthash(flg.given))

\* a payload of 70 bytes over three outputs, the third ending in 24 zero bytes
C26_Witness ==
  /\ FlagsReturned /\ ~Precomputed
  /\ Len(flg.given.vout) = 3
  /\ \A j \in 1..3 : IsWsh(flg.given, j)
  /\ PayloadLength(flg.given.vout[1]) = 70
  /\ PayloadLength(flg.given.vout[2]) # 30
  /\ flg.given.vout[3].scriptpubkey = <<0, 32>> \o Rep(0, 32)
  /\ "fake_scripthash" \in flg.first


\* ================================================== convertScriptSigAsm

MaxScript == 4

\* b.join(' ')
RECURSIVE Join(_)
Join(b) ==
  IF b = <<>> THEN ""
  ELSE IF Len(b) = 1 THEN b[1]
  ELSE b[1] \o " " \o Join(Tail(b))

\* push of a push opcode read at index i - 1: buf[i], buf[i] | buf[i + 1] << 8,
\* the four bytes as an int32, or op itself; Undef for buf[i] past the end
PushLength(buf, op, i) ==
  IF op = 76 THEN At(buf, i)
  ELSE IF op = 77 THEN Or0(At(buf, i)) + 256 * Or0(At(buf, i + 1))
  ELSE IF op = 78 THEN Int32At(buf, i)
  ELSE op

PushMnemonic(op) ==
  IF op = 76 THEN "OP_PUSHDATA1"
  ELSE IF op = 77 THEN "OP_PUSHDATA2"
  ELSE IF op = 78 THEN "OP_PUSHDATA4"
  ELSE "OP_PUSHBYTES_" \o ToString(op)

PrefixLength(op) == IF op = 76 THEN 1 ELSE IF op = 77 THEN 2 ELSE IF op = 78 THEN 4 ELSE 0

\* buf.slice(i, i + push): i + undefined is NaN, an end of 0
PushData(buf, i, push) ==
  IF push = Undef THEN JsSlice(buf, i, 0)
  ELSE JsSlice(buf, i, i + Min(push, Huge))

\* the else branch of the loop
OtherMnemonic(op) ==
  IF op = 0 THEN "OP_0"
  ELSE IF op = 79 THEN "OP_PUSHNUM_NEG1"
  ELSE IF op = 177 THEN "OP_CLTV"
  ELSE IF op = 178 THEN "OP_CSV"
  ELSE IF op = 186 THEN "OP_CHECKSIGADD"
  ELSE IF op \in DOMAIN opcodes THEN opcodes[op]
  ELSE "OP_RETURN_" \o ToString(op)

DisBytes == {0, 1, 2, 76, 77, 78, 128, 255}

InitDis ==
  /\ CodecIdle /\ StdIdle /\ sresult = "none"
  /\ PriIdle /\ SigIdle /\ AdrIdle /\ FlgIdle /\ EncIdle /\ CntIdle /\ TapIdle
  /\ \E b \in SeqsUpTo(DisBytes, MaxScript) :
       dis = [pc |-> "loop", buf |-> b, i |-> 0, b |-> <<>>, result |-> "", passes |-> 0]

\* one pass of while (i < buf.length) for a push opcode
DisPush ==
  /\ dis.pc = "loop"
  /\ dis.i < Len(dis.buf)
  /\ At(dis.buf, dis.i) \in 1..78
  /\ LET op == At(dis.buf, dis.i)
         push == PushLength(dis.buf, op, dis.i + 1)
         i == dis.i + 1 + PrefixLength(op)
         data == PushData(dis.buf, i, push)
     IN dis' = IF Len(data) # push
                 THEN [dis EXCEPT !.b = Append(@, PushMnemonic(op)), !.i = i, !.pc = "return",
                                  !.passes = @ + 1]
                 ELSE [dis EXCEPT !.b = @ \o <<PushMnemonic(op), HexStr(data)>>,
                                  !.i = i + Len(data), !.passes = @ + 1]
  /\ UNCHANGED <<codecVars, stdVars, pri, sig, adr, flg, enc, cnt, tap>>

\* one pass for any other opcode
DisOther ==
  /\ dis.pc = "loop"
  /\ dis.i < Len(dis.buf)
  /\ At(dis.buf, dis.i) \notin 1..78
  /\ dis' = [dis EXCEPT !.b = Append(@, OtherMnemonic(At(dis.buf, dis.i))), !.i = @ + 1,
                        !.passes = @ + 1]
  /\ UNCHANGED <<codecVars, stdVars, pri, sig, adr, flg, enc, cnt, tap>>

\* return b.join(' '), at the end of the buffer or after break
DisReturn ==
  /\ dis.pc = "return" \/ (dis.pc = "loop" /\ dis.i >= Len(dis.buf))
  /\ dis' = [dis EXCEPT !.pc = "done", !.result = Join(dis.b)]
  /\ UNCHANGED <<codecVars, stdVars, pri, sig, adr, flg, enc, cnt, tap>>

NextDis == DisPush \/ DisOther \/ DisReturn

SpecDis == InitDis /\ [][NextDis]_vars

\* ------------------------------------------------------------ claim C20

\* the number of bytes a push opcode at index k declares, the four bytes of
\* OP_PUSHDATA4 as two 16-bit halves; defined when its length prefix is whole
DeclaredHigh(buf, k) == IF buf[k + 1] = 78 THEN buf[k + 4] + 256 * buf[k + 5] ELSE 0
DeclaredLow(buf, k) ==
  IF buf[k + 1] = 76 THEN buf[k + 2]
  ELSE IF buf[k + 1] \in {77, 78} THEN buf[k + 2] + 256 * buf[k + 3]
  ELSE buf[k + 1]

\* the tokens of the disassembly from index k as the specification states it
RECURSIVE StatedTokens(_, _)
StatedTokens(buf, k) ==
  IF k >= Len(buf) THEN <<>>
  ELSE
    LET op == buf[k + 1]
        start == k + 1 + PrefixLength(op)
    IN IF op \notin 1..78 THEN <<OtherMnemonic(op)>> \o StatedTokens(buf, k + 1)
       ELSE IF start > Len(buf) THEN <<PushMnemonic(op)>>
       ELSE IF DeclaredHigh(buf, k) > 0 \/ DeclaredLow(buf, k) > Len(buf) - start
         THEN <<PushMnemonic(op)>>
       ELSE <<PushMnemonic(op), HexStr(SubSeq(buf, start + 1, start + DeclaredLow(buf, k)))>>
              \o StatedTokens(buf, start + DeclaredLow(buf, k))

MaxSeed == 5
MaxB58 == 3

\* hashes of n bytes: all zero, all 0xff, and one for each seed
EncHashes(n) ==
  { Rep(0, n), Rep(255, n) }
  \cup { [k \in 1..n |-> (seed * k * k + 37 * seed + k) % 256] : seed \in 1..MaxSeed }

EncNetworks == {"", "mainnet", "testnet", "testnet4", "signet"}

EncWitnessCalls ==
  { [fn |-> "p2wpkh", data |-> h] : h \in EncHashes(20) }
  \cup { [fn |-> f, data |-> h] : f \in {"p2wsh", "p2tr"}, h \in EncHashes(32) }

\* byte arrays given to base58Encode: the short ones over the bytes at the
\* edges of a base-58 digit, and a payload of 25 bytes
Base58Inputs ==
  SeqsUpTo({0, 1, 57, 58, 255}, MaxB58)
  \cup { <<0, 1, 9, 102, 119, 96, 6, 149, 61, 85, 103, 67, 158, 94, 57, 248, 106, 13, 39, 59,
           238, 214, 25, 103, 246>> }

InitEnc ==
  /\ CodecIdle /\ StdIdle /\ sresult = "none"
  /\ PriIdle /\ SigIdle /\ AdrIdle /\ FlgIdle /\ DisIdle /\ CntIdle /\ TapIdle
  /\ \/ \E call \in EncWitnessCalls, n \in EncNetworks :
          enc = [pc |-> "start", fn |-> call.fn, data |-> call.data, network |-> n,
                 result |-> <<>>]
     \/ \E data \in Base58Inputs :
          enc = [pc |-> "start", fn |-> "base58Encode", data |-> data, network |-> "",
                 result |-> <<>>]

\* a call of p2wpkh, p2wsh or p2tr with the hex string of the hash
CallWitnessAddress ==
  /\ enc.pc = "start"
  /\ enc.fn \in {"p2wpkh", "p2wsh", "p2tr"}
  /\ enc' = [enc EXCEPT !.pc = "done",
                        !.result = CASE enc.fn = "p2wpkh" -> p2wpkh(ToHex(enc.data), enc.network)
                                     [] enc.fn = "p2wsh" -> p2wsh(ToHex(enc.data), enc.network)
                                     [] enc.fn = "p2tr" -> p2tr(ToHex(enc.data), enc.network)]
  /\ UNCHANGED <<codecVars, stdVars, pri, sig, adr, flg, dis, cnt, tap>>

\* a call of base58Encode: BigInt("0x") throws a SyntaxError for the empty array
CallBase58Encode ==
  /\ enc.pc = "start"
  /\ enc.fn = "base58Encode"
  /\ enc' = IF enc.data = <<>> THEN [enc EXCEPT !.pc = "thrown"]
            ELSE [enc EXCEPT !.pc = "done", !.result = base58Encode(enc.data)]
  /\ UNCHANGED <<codecVars, stdVars, pri, sig, adr, flg, dis, cnt, tap>>

NextEnc == CallWitnessAddress \/ CallBase58Encode

SpecEnc == InitEnc /\ [][NextEnc]_vars

\* ------------------------------------------------------------ claim C21

\* BIP173 on polynomials over GF(2): a checksum state is the set of the
\* exponents of its terms
Bits(n) == {k \in 0..29 : (n \div (2 ^ k)) % 2 = 1}
RECURSIVE BitsValue(_, _, _)
BitsValue(bits, lo, hi) ==
  IF lo = hi THEN (IF lo \in bits THEN 2 ^ lo ELSE 0)
  ELSE LET mid == (lo + hi) \div 2 IN BitsValue(bits, lo, mid) + BitsValue(bits, mid + 1, hi)

Number(bits) == BitsValue(bits, 0, 29)
SymDiff(A, B) == (A \ B) \cup (B \ A)

Bip173Generators ==
  <<Bits(996825010), Bits(642813549), Bits(513874426), Bits(1027748829), Bits(705979059)>>

Bip173Step(chk, v) ==
  LET shifted == {k + 5 : k \in {h \in chk : h < 25}}
      gen(i) == IF (24 + i) \in chk THEN Bip173Generators[i] ELSE {}
  IN SymDiff(SymDiff(shifted, Bits(v)),
             SymDiff(gen(1), SymDiff(gen(2), SymDiff(gen(3), SymDiff(gen(4), gen(5))))))

RECURSIVE Bip173Fold(_, _, _, _)
Bip173Fold(chk, values, lo, hi) ==
  IF lo > hi THEN chk
  ELSE IF lo = hi THEN Bip173Step(chk, values[lo])
  ELSE LET mid == (lo + hi) \div 2
           half == Bip173Fold(chk, values, lo, mid)
       IN IF half \subseteq 0..29 THEN Bip173Fold(half, values, mid + 1, hi) ELSE half

Bip173Polymod(values) ==
  IF Len(values) > 0 THEN Bip173Fold({0}, values, 1, Len(values)) ELSE {0}

HrpCode(c) == CASE c = "b" -> 98 [] c = "c" -> 99 [] c = "t" -> 116

Bip173HrpExpand(hrp) ==
  [k \in 1..Len(hrp) |-> HrpCode(hrp[k]) \div 32] \o <<0>>
  \o [k \in 1..Len(hrp) |-> HrpCode(hrp[k]) % 32]

\* the value of a character of the data part
Bech32Value(c) == (CHOOSE k \in 1..32 : BECH32_ALPHABET[k] = c) - 1

\* the number of characters that the version word, the 5-bit groups of n bytes
\* and the six checksum words take
DataPartLength(n) == 1 + ((8 * n + 4) \div 5) + 6

EncHrp == SubSeq(enc.result, 1, 2)
EncDataPart == [k \in 1..(Len(enc.result) - 3) |-> Bech32Value(enc.result[k + 3])]

\* C21: for each address that p2wpkh, p2wsh and p2tr return, under the prefix
\* bc or tb, every word emitted is in 0..31 (so each became a character of the
\* data part) and the BIP173 polymod of the expanded prefix, the data words and
\* the checksum words is 1 for witness version 0 and 0x2bc830a3 for version 1.
C21_Bech32Checksum ==
  (enc.pc = "done" /\ enc.fn \in {"p2wpkh", "p2wsh", "p2tr"}) =>
    /\ EncHrp \in {<<"b", "c">>, <<"t", "b">>}
    /\ enc.result[3] = "1"
    /\ Len(enc.result) = 3 + DataPartLength(Len(enc.data))
    /\ \A k \in 4..Len(enc.result) : \E w \in 1..32 : BECH32_ALPHABET[w] = enc.result[k]
    /\ EncDataPart[1] = (IF enc.fn = "p2tr" THEN 1 ELSE 0)
    /\ Number(Bip173Polymod(Bip173HrpExpand(EncHrp) \o EncDataPart))
         = (IF enc.fn = "p2tr" THEN 734539939 ELSE 1)

C21_Witness ==
  /\ enc.pc = "done" /\ enc.fn = "p2tr" /\ enc.network = "signet"
  /\ enc.data = Rep(255, 32)
  /\ EncHrp = <<"t", "b">>

\* ------------------------------------------------------------ claim C22

\* the value of a base-58 character
Base58Value(c) == (CHOOSE k \in 1..58 : BASE58_ALPHABET[k] = c) - 1

\* 58 x acc + d on the base-256 digits lo..hi of acc (most significant first),
\* from the state s = [digits, carry] of the digits after hi: the second half of
\* the range, then the first
RECURSIVE MulAdd58(_, _, _, _)
MulAdd58(s, acc, lo, hi) ==
  IF lo > hi THEN s
  ELSE IF lo = hi
    THEN LET v == 58 * acc[lo] + s.carry
         IN [digits |-> <<v % 256>> \o s.digits, carry |-> v \div 256]
  ELSE LET mid == (lo + hi) \div 2
           half == MulAdd58(s, acc, mid + 1, hi)
       IN IF half.carry >= 0 THEN MulAdd58(half, acc, lo, mid) ELSE half

\* the base-256 digits, without leading zeros, of the number with the digits
\* acc after the base-58 digits str[lo..hi] are appended to it: the first half
\* of the range, then the second
RECURSIVE Base58Number(_, _, _, _)
Base58Number(acc, str, lo, hi) ==
  IF lo > hi THEN acc
  ELSE IF lo = hi
    THEN LET r == MulAdd58([digits |-> <<>>, carry |-> Base58Value(str[lo])], acc, 1, Len(acc))
         IN IF r.carry > 0 THEN <<r.carry>> \o r.digits ELSE r.digits
  ELSE LET mid == (lo + hi) \div 2
           half == Base58Number(acc, str, lo, mid)
       IN IF Len(half) >= 0 THEN Base58Number(half, str, mid + 1, hi) ELSE half

\* the number of leading elements of s equal to x
LeadingCount(s, x) ==
  CHOOSE n \in 0..Len(s) :
    /\ \A k \in 1..n : s[k] = x
    /\ n = Len(s) \/ s[n + 1] # x

\* decoding: a zero byte for each leading '1', then the bytes of the number
Base58Decode(str) ==
  Rep(0, LeadingCount(str, "1")) \o Base58Number(<<>>, str, 1, Len(str))

\* C22: for each non-empty byte array, the string that base58Encode returns
\* consists of characters of the alphabet, begins with as many '1' as the array
\* has leading zero bytes, continues with the base-58 digits of the value of
\* the array, most significant first and without a leading zero digit (none at
\* all for the value 0), and decodes to the array.
C22_Base58LeadingZeros ==
  (enc.pc = "done" /\ enc.fn = "base58Encode") =>
    /\ \A k \in 1..Len(enc.result) : \E d \in 1..58 : BASE58_ALPHABET[d] = enc.result[k]
    /\ LeadingCount(enc.result, "1") = LeadingCount(enc.data, 0)
    /\ (\A k \in 1..Len(enc.data) : enc.data[k] = 0)
         => Len(enc.result) = LeadingCount(enc.data, 0)
    /\ Base58Decode(enc.result) = enc.data

C22_Witness ==
  /\ enc.pc = "done" /\ enc.fn = "base58Encode"
  /\ enc.data = <<0, 0, 58>>
  /\ enc.result = <<"1", "1", "2", "1">>

\* ============================================================ countSigops

MaxCntVin == 2

\* the tokens of convertScriptSigAsm(hex) from index i of the bytes of hex
RECURSIVE AsmTokens(_, _)
AsmTokens(buf, i) ==
  IF i >= Len(buf) THEN <<>>
  ELSE
    LET op == At(buf, i)
    IN IF op \in 1..78
         THEN LET push == PushLength(buf, op, i + 1)
                  j == i + 1 + PrefixLength(op)
                  data == PushData(buf, j, push)
              IN IF Len(data) # push THEN <<PushMnemonic(op)>>
                 ELSE <<PushMnemonic(op), HexStr(data)>> \o AsmTokens(buf, j + Len(data))
         ELSE <<OtherMnemonic(op)>> \o AsmTokens(buf, i + 1)

\* input.witness?.length as a condition: false without a witness and for an
\* empty one
HasWitnessItems(input) == input.hasWitness /\ Len(input.witness) > 0

\* input.witness?.length === n
WitnessLengthIs(input, n) == input.hasWitness /\ Len(input.witness) = n

\* input.scriptsig && input.scriptsig.startsWith(prefix), scriptsig and prefix
\* as bytes
ScriptsigStartsWith(input, prefix) ==
  /\ Len(input.scriptsig) >= Len(prefix)
  /\ SubSeq(input.scriptsig, 1, Len(prefix)) = prefix

\* the witness script counted four times, as a script outside the witness
InputSigopsScaledWitness(input) ==
  countScriptSigops(input.scriptsig_asm, TRUE, FALSE)
  + IF ~input.hasPrevout THEN 0
    ELSE LET type == input.prevout.scriptpubkey_type
         IN IF type = "v0_p2wpkh"
                 \/ (type = "p2sh" /\ WitnessLengthIs(input, 2)
                       /\ ScriptsigStartsWith(input, <<22, 0, 20>>))
              THEN 1
            ELSE IF type = "v0_p2wsh"
                 \/ (type = "p2sh" /\ HasWitnessItems(input)
                       /\ ScriptsigStartsWith(input, <<34, 0, 32>>))
              THEN IF HasWitnessItems(input)
                     THEN countScriptSigops(
                            AsmTokens(input.witness[Len(input.witness)], 0), FALSE, FALSE)
                     ELSE 0
            ELSE IF type = "p2sh"
              THEN countScriptSigops(input.inner_redeemscript_asm, FALSE, FALSE)
            ELSE 0

\* the body of the loop over transaction.vin: what one input adds
InputSigops(input) ==
  countScriptSigops(input.scriptsig_asm, TRUE, FALSE)
  + IF ~input.hasPrevout THEN 0
    ELSE LET type == input.prevout.scriptpubkey_type
         IN IF type = "v0_p2wpkh"
                 \/ (type = "p2sh" /\ WitnessLengthIs(input, 2)
                       /\ ScriptsigStartsWith(input, <<22, 0, 20>>))
              THEN 1
            ELSE IF type = "v0_p2wsh"
                 \/ (type = "p2sh" /\ HasWitnessItems(input)
                       /\ ScriptsigStartsWith(input, <<34, 0, 32>>))
              THEN IF HasWitnessItems(input)
                     THEN countScriptSigops(
                            AsmTokens(input.witness[Len(input.witness)], 0), FALSE, TRUE)
                     ELSE 0
            ELSE IF type = "p2sh"
              THEN countScriptSigops(input.inner_redeemscript_asm, FALSE, FALSE)
            ELSE 0

countSigops(transaction) ==
  SumSeq([k \in 1..Len(transaction.vin) |-> InputSigops(transaction.vin[k])])
  + SumSeq([k \in 1..Len(transaction.vout) |->
              countScriptSigops(transaction.vout[k].scriptpubkey_asm, TRUE, FALSE)])

\* a witness that is absent
NoWitness == [has |-> FALSE, items |-> <<>>]
Witness(items) == [has |-> TRUE, items |-> items]

\* an input: a missing or empty string is the empty sequence; hasPrevout and
\* hasWitness tell whether prevout and witness are there
CntVin(type, scriptsig, asm, w, redeem) ==
  [hasPrevout |-> type # "", prevout |-> [scriptpubkey_type |-> type],
   scriptsig |-> scriptsig, scriptsig_asm |-> asm, hasWitness |-> w.has, witness |-> w.items,
   inner_redeemscript_asm |-> redeem]

\* witness scripts: 2 <key> <key> 2 OP_CHECKMULTISIG without the keys, and
\* OP_CHECKSIG OP_CHECKSIGVERIFY
MultisigWitnessScript == <<82, 82, 174>>
ChecksigWitnessScript == <<172, 173>>

WrappedWpkh == <<22, 0, 20>> \o Rep(17, 20)
WrappedWsh == <<34, 0, 32>> \o Rep(17, 32)
RedeemAsm == <<"OP_PUSHNUM_1", "OP_PUSHBYTES_1", "aa", "OP_PUSHNUM_1", "OP_CHECKMULTISIG">>

CntVinKinds ==
  { CntVin("", <<172>>, <<"OP_CHECKSIG">>, NoWitness, <<>>),
    CntVin("", <<34, 0, 32>>, <<>>, Witness(<<<<1>>, ChecksigWitnessScript>>), RedeemAsm),
    CntVin("p2pkh", <<1, 172>>, <<"OP_PUSHBYTES_1", "ac">>, NoWitness, <<>>),
    CntVin("v0_p2wpkh", <<>>, <<>>, Witness(<<<<1>>, <<2>>>>), <<>>),
    CntVin("v0_p2wpkh", <<>>, <<>>, NoWitness, <<>>),
    CntVin("p2sh", WrappedWpkh, <<"OP_PUSHBYTES_22", "0014">>, Witness(<<<<1>>, <<2>>>>), <<>>),
    CntVin("p2sh", WrappedWpkh, <<"OP_PUSHBYTES_22", "0014">>, Witness(<<<<1>>, <<2>>, <<3>>>>),
           RedeemAsm),
    CntVin("p2sh", WrappedWsh, <<"OP_PUSHBYTES_34", "0020">>,
           Witness(<<<<1>>, MultisigWitnessScript>>), RedeemAsm),
    CntVin("p2sh", WrappedWsh, <<"OP_PUSHBYTES_34", "0020">>, Witness(<<>>), RedeemAsm),
    CntVin("p2sh", <<>>, <<>>, Witness(<<<<1>>, ChecksigWitnessScript>>), RedeemAsm),
    CntVin("p2sh", <<81, 174>>, <<"OP_PUSHNUM_1", "OP_CHECKMULTISIG">>, NoWitness, RedeemAsm),
    CntVin("v0_p2wsh", <<>>, <<>>, Witness(<<<<1>>, MultisigWitnessScript>>), <<>>),
    CntVin("v0_p2wsh", <<>>, <<>>, Witness(<<ChecksigWitnessScript, <<>>>>), <<>>),
    CntVin("v0_p2wsh", <<>>, <<>>, Witness(<<>>), <<>>),
    CntVin("v1_p2tr", <<>>, <<>>, Witness(<<<<1>>, ChecksigWitnessScript>>), <<>>) }

CntVoutKinds ==
  { [scriptpubkey_asm |-> <<>>],
    [scriptpubkey_asm |-> <<"OP_DUP", "OP_HASH160", "OP_PUSHBYTES_20", "11", "OP_EQUALVERIFY",
                            "OP_CHECKSIG">>],
    [scriptpubkey_asm |-> <<"OP_PUSHNUM_1", "OP_PUSHBYTES_33", "02", "OP_PUSHNUM_1",
                            "OP_CHECKMULTISIG">>] }

InitCnt ==
  /\ CodecIdle /\ StdIdle /\ sresult = "none"
  /\ PriIdle /\ SigIdle /\ AdrIdle /\ FlgIdle /\ DisIdle /\ EncIdle /\ TapIdle
  /\ \E vin \in SeqsUpTo(CntVinKinds, MaxCntVin), vout \in SeqsUpTo(CntVoutKinds, 1) :
       cnt = [pc |-> "start", transaction |-> [vin |-> vin, vout |-> vout], result |-> 0]

CallCountSigops ==
  /\ cnt.pc = "start"
  /\ cnt' = [cnt EXCEPT !.pc = "done", !.result = countSigops(cnt.transaction)]
  /\ UNCHANGED <<codecVars, stdVars, pri, sig, adr, flg, dis, enc, tap>>

NextCnt == CallCountSigops

SpecCnt == InitCnt /\ [][NextCnt]_vars

\* ------------------------------------------------------------ claim C24

IsWrappedWpkh(input) ==
  /\ input.prevout.scriptpubkey_type = "p2sh"
  /\ WitnessLengthIs(input, 2)
  /\ ScriptsigStartsWith(input, <<22, 0, 20>>)

IsWrappedWsh(input) ==
  /\ input.prevout.scriptpubkey_type = "p2sh"
  /\ HasWitnessItems(input)
  /\ ScriptsigStartsWith(input, <<34, 0, 32>>)

\* what an input adds besides the count of its scriptSig, as stated
StatedSpendSigops(input) ==
  CASE ~input.hasPrevout -> 0
    [] input.hasPrevout /\ (input.prevout.scriptpubkey_type = "v0_p2wpkh"
                                       \/ IsWrappedWpkh(input)) -> 1
    [] input.hasPrevout /\ input.prevout.scriptpubkey_type = "v0_p2wsh" ->
         IF HasWitnessItems(input)
           THEN countScriptSigops(AsmTokens(input.witness[Len(input.witness)], 0), FALSE, TRUE)
           ELSE 0
    [] input.hasPrevout /\ IsWrappedWsh(input) ->
         countScriptSigops(AsmTokens(input.witness[Len(input.witness)], 0), FALSE, TRUE)
    [] OTHER ->
         IF input.prevout.scriptpubkey_type = "p2sh"
           THEN 4 * countScriptSigops(input.inner_redeemscript_asm, FALSE, TRUE)
           ELSE 0

\* C24: countSigops(tx) is the sum, over the inputs, of four times the raw count
\* of scriptsig_asm, plus 1 for an input spending v0_p2wpkh or p2sh-wrapped
\* p2wpkh (2 witness items, scriptSig starting 160014), plus the unscaled count
\* of the last witness item for an input spending v0_p2wsh or p2sh-wrapped p2wsh
\* (scriptSig starting 220020) with a non-empty witness, plus four times the
\* redeem-script count of inner_redeemscript_asm for every other p2sh input,
\* plus, over the outputs, four times the raw count of scriptpubkey_asm; an
\* input without prevout adds only its scriptSig count.
C24_CountSigopsComposition ==
  cnt.pc = "done" =>
    LET t == cnt.transaction
    IN cnt.result =
         SumSeq([k \in 1..Len(t.vin) |->
                   4 * countScriptSigops(t.vin[k].scriptsig_asm, TRUE, TRUE)
                     + StatedSpendSigops(t.vin[k])])
         + SumSeq([k \in 1..Len(t.vout) |->
                     4 * countScriptSigops(t.vout[k].scriptpubkey_asm, TRUE, TRUE)])

\* a wrapped p2wsh input with a 2-of-2 witness script (2), a plain p2sh input
\* with a 1-of-1 redeem script after a scriptSig multisig (80 + 4), and a
\* multisig output (80)
C24_Witness ==
  /\ cnt.pc = "done"
  /\ Len(cnt.transaction.vin) = 2 /\ Len(cnt.transaction.vout) = 1
  /\ IsWrappedWsh(cnt.transaction.vin[1])
  /\ cnt.transaction.vin[2].scriptsig = <<81, 174>>
  /\ Len(cnt.transaction.vout[1].scriptpubkey_asm) = 5
  /\ cnt.result = 2 + 84 + 80

\* ------------------------------------------------------------ claim C28

\* C28: for every transaction that decodeRawTransaction returns,
\* getNonWitnessSize(tx) is the number of raw bytes outside the segwit marker,
\* the flag and the witness section, also when the transaction is segwit-marked
\* and some or all of its inputs have an empty witness stack.
C28_NonWitnessSize ==
  pc = "done" => getNonWitnessSize(tx) = ghost.nonWit

\* ------------------------------------------------------------ claim C29

\* the types whose address is a witness program in bech32 or bech32m
WitnessProgramTypes == {"v0_p2wpkh", "v0_p2wsh", "v1_p2tr", "anchor"}

TestNetworks == {"testnet", "testnet4", "signet"}

\* the address has the parameters stated for the type: the version byte of a
\* base58check address, the human-readable prefix of a witness-program address
HasParameters(address, type, pkh, sh, hrp) ==
  CASE type = "p2pkh" -> Base58Decode(address)[1] = pkh
    [] type = "p2sh" -> Base58Decode(address)[1] = sh
    [] type \in WitnessProgramTypes -> SubSeq(address, 1, Len(hrp) + 1) = hrp \o <<"1">>
    [] OTHER -> FALSE

\* the addresses of the given types have the parameters of their network
NetworkParameters(types) ==
  (adr.pc = "done" /\ adr.result.type \in types) =>
    IF adr.network \in TestNetworks
      THEN HasParameters(adr.result.address, adr.result.type, 111, 196, <<"t", "b">>)
      ELSE HasParameters(adr.result.address, adr.result.type, 0, 5, <<"b", "c">>)

\* C29: on testnet, testnet4 and signet every non-null address returned by
\* scriptPubKeyToAddress has the testnet parameters (version byte 0x6f for
\* P2PKH, 0xc4 for P2SH, prefix 'tb' for a witness-program address), and on
\* every other network the mainnet parameters (0x00, 0x05, 'bc').
C29_NetworkParameters ==
  NetworkParameters(WitnessProgramTypes \cup {"p2pkh", "p2sh"})

\* ===================================================== parseControlBlock

\* TaprootAddressScriptsComponent. The component is the record of its fields
\* depth (0 after construction) and tree (undefined until buildTree assigns
\* it); a control block is the sequence of the characters of its hex string.

MaxPath == 2
MaxCalls == 3

\* this after construction
NewComponent == [depth |-> 0, tree |-> "undefined"]

\* Number.isInteger(((controlBlock.length / 2) - 33) / 32)
PathLengthIsInteger(controlBlock) ==
  /\ Len(controlBlock) % 2 = 0
  /\ ((Len(controlBlock) \div 2) - 33) % 32 = 0

\* parseInt(s, 16) of two hex digits
ParseInt16(s) == 16 * HexVal[s[1]] + HexVal[s[2]]

\* v & 0xfe of a byte
ClearLowBit(v) == v - (v % 2)

\* the component after the call, whether the call threw, and what it returned
parseControlBlock(this, controlBlock) ==
  IF ~PathLengthIsInteger(controlBlock)
    THEN [this |-> this, thrown |-> TRUE, leafVersion |-> 0, merklePath |-> <<>>]
    ELSE LET m == ((Len(controlBlock) \div 2) - 33) \div 32
             leafVersion == ClearLowBit(ParseInt16(SubSeq(controlBlock, 1, 2)))
             merklePath == [i \in 1..m |-> SubSeq(controlBlock, 66 + (i - 1) * 64 + 1,
                                                  66 + i * 64)]
         IN [this |-> IF Len(merklePath) > this.depth
                        THEN [this EXCEPT !.depth = Len(merklePath)]
                        ELSE this,
             thrown |-> FALSE, leafVersion |-> leafVersion, merklePath |-> merklePath]

\* control blocks of n bytes with the given first byte
ControlBlockBytes(first, n) == <<first>> \o [k \in 1..(n - 1) |-> (7 * k) % 256]

\* hex strings given as control blocks: of 33 + 32 p bytes, of one byte more,
\* of a half byte less, of 1 and 32 bytes, and the empty string
ControlBlocks ==
  LET firsts == {192, 193, 80, 255}
      sizes == {1, 32} \cup UNION {{33 + 32 * p, 34 + 32 * p} : p \in 0..MaxPath}
      whole == {ToHex(ControlBlockBytes(f, n)) : f \in firsts, n \in sizes}
      cut == {SubSeq(c, 1, Len(c) - 1) :
                c \in {ToHex(ControlBlockBytes(f, 33 + 32 * p)) : f \in firsts, p \in 0..MaxPath}}
  IN whole \cup cut \cup {<<>>}

InitTap ==
  /\ CodecIdle /\ StdIdle /\ sresult = "none"
  /\ PriIdle /\ SigIdle /\ AdrIdle /\ FlgIdle /\ DisIdle /\ EncIdle /\ CntIdle
  /\ tap = [pc |-> "constructed", this |-> NewComponent, calls |-> 0, controlBlock |-> <<>>,
            result |-> [leafVersion |-> 0, merklePath |-> <<>>]]

CallParseControlBlock ==
  /\ tap.pc # "idle"
  /\ tap.calls < MaxCalls
  /\ \E controlBlock \in ControlBlocks :
       LET r == parseControlBlock(tap.this, controlBlock)
       IN tap' = [pc |-> IF r.thrown THEN "thrown" ELSE "returned",
                  this |-> r.this,
                  calls |-> tap.calls + 1,
                  controlBlock |-> controlBlock,
                  result |-> [leafVersion |-> r.leafVersion, merklePath |-> r.merklePath]]
  /\ UNCHANGED <<codecVars, stdVars, pri, sig, adr, flg, dis, enc, cnt>>

NextTap == CallParseControlBlock

SpecTap == InitTap /\ [][NextTap]_vars

\* ------------------------------------------------------------ claim C30

\* the result stated for a control block: an error when (bytes - 33) / 32 is
\* not an integer, else the first byte without its lowest bit and the
\* (bytes - 33) / 32 hashes of 32 bytes that follow the first 33 bytes
StatedControlBlock(controlBlock) ==
  LET bytes == HexToBytes(controlBlock)
      whole == 2 * Len(bytes) = Len(controlBlock)
      n == Len(bytes) - 33
  IN IF ~whole \/ n % 32 # 0
       THEN [thrown |-> TRUE, leafVersion |-> 0, merklePath |-> <<>>]
       ELSE [thrown |-> FALSE,
             leafVersion |-> 2 * (bytes[1] \div 2),
             merklePath |-> [i \in 1..(n \div 32) |->
                               ToHex(SubSeq(bytes, 33 + 32 * (i - 1) + 1, 33 + 32 * i))]]

\* the call returned what is stated for its argument
ReturnsStated ==
  LET stated == StatedControlBlock(tap'.controlBlock)
  IN /\ (tap'.pc = "thrown") = stated.thrown
     /\ tap'.result.leafVersion = stated.leafVersion
     /\ tap'.result.merklePath = stated.merklePath

\* C30: parseControlBlock returns a result that depends only on its argument
\* (leaf version, merkle path, error when the length does not fit) and changes
\* no field of the component: whatever the calls made, tree, depth and every
\* other field are as before the call.
C30_ControlBlockPure ==
  [][CallParseControlBlock => (ReturnsStated /\ tap'.this = tap.this)]_vars

====
